---- MODULE Spec2Model ----
(***************************************************************************)
(* Email bot: embedding, vector index, weighted similarity search,        *)
(* classification and the per-message orchestrator (mailing_bot.py,       *)
(* vector_store.py, specialized_vector_store.py, classifier.py,           *)
(* email_handler.py, config.py).                                          *)
(*                                                                         *)
(* Texts are sequences of one-character strings, so that strip() and      *)
(* hash() are computed and not assumed.  Vectors are sequences of         *)
(* integers; the weights of config.py are kept in tenths.                 *)
(***************************************************************************)
EXTENDS Integers, Sequences, FiniteSets, TLC

VARIABLES
    index,      \* VectorStore.index (index "email-embeddings"): namespace -> id -> record
    job_index,  \* JobCandidateStore.job_index (index "job-candidates"): namespace -> id -> record
    latest,     \* history: per store method and message id, the data of its latest successful store
    call,       \* the last call made on a store's interface or on the bot
    result,     \* what that call returned or raised
    pc,         \* position of process_new_emails / _process_single_email
    new_emails, \* the batch fetched by process_new_emails
    seen,       \* message ids of the mailbox no longer UNSEEN
    pos,        \* position in the batch of the message being processed
    loc,        \* locals of _process_single_email
    trace,      \* calls made on the stores and the mail transport for the current message
    outcome,    \* per position of the batch: "pending", "processed", "failed"
    outbox,     \* replies delivered by smtp.send_message in the current run
    ipc,        \* position of _init_index
    index_name, \* the index _init_index is called for
    attempt,    \* attempt of the describe loop of _init_index
    clock,      \* time.time() - start_time of the readiness loop, in seconds
    observed,   \* what the last describe_index of _init_index reported
    calls,      \* number of calls _init_index made on the client, per method
    handle,     \* the index object _init_index connected (self.index / the return value)
    env,        \* the required environment variables that are set
    main,       \* the program: position of run_bot.main, or the life cycle of the service
    initialization_status, \* initialization_status of app.py
    lock,       \* the task holding initialization_lock, or NoTask
    tasks,      \* position of each call of initialize_bot_async
    workers,    \* the executor thread running initialize_system for each call
    vector_stores, \* app.vector_stores is set
    bot,        \* app.bot is set
    polling,    \* polling_task: position of poll_emails, cancellation requested
    runs,       \* the runs of bot.process_new_emails: 0 by poll_emails, others by requests
    network     \* the services a network call was made to

vars == <<index, job_index, latest, call, result, pc, new_emails, seen, pos, loc,
          trace, outcome, outbox, ipc, index_name, attempt, clock, observed, calls, handle,
          env, main, initialization_status, lock, tasks, workers, vector_stores, bot, polling, runs,
          network>>

store_vars == <<index, job_index, latest>>

orch_vars == <<pc, new_emails, seen, pos, loc, trace, outcome, outbox>>

init_vars == <<ipc, index_name, attempt, clock, observed, calls, handle>>

app_vars == <<env, main, initialization_status, lock, tasks, workers, vector_stores, bot,
              polling, runs, network>>

\* the state outside the stores and the message loop
other_vars == <<init_vars, app_vars>>

NoHandle == "<none>"
NoCalls == [describe_index |-> 0, create_index |-> 0, poll |-> 0, Index |-> 0,
            describe_index_stats |-> 0]

\* no _init_index is running
InitIndexIdle ==
    /\ ipc = "idle"
    /\ index_name = ""
    /\ attempt = 0
    /\ clock = 0
    /\ observed = "none"
    /\ calls = NoCalls
    /\ handle = NoHandle

\* calls of initialize_bot_async in one life of the service
MaxTriggers == 2
\* POST /process-emails requests in one life of the service
MaxRequests == 1

Triggers == 1..MaxTriggers
NoTask == 0

\* the runs of process_new_emails: 0 is the one of poll_emails
PollRun == 0
Runners == 0..MaxRequests

\* required_vars of initialize_bot_async
RequiredVars ==
    {"EMAIL_ADDRESS", "EMAIL_PASSWORD", "PINECONE_API_KEY", "PINECONE_ENVIRONMENT",
     "OPENAI_API_KEY"}

\* initialization_status at import
NotStarted == [state |-> "not_started", error |-> "", step |-> ""]

\* a run of process_new_emails: messages left in the batch, messages handled
IdleRun == [pc |-> "idle", left |-> 0, done |-> 0]

\* a store attribute that is None
Unattached == [store |-> "None", by |-> NoTask]

\* app.vector_stores = None
NoStores == <<>>

\* app.bot = None
NoBot == [exists |-> FALSE, vector_store |-> Unattached, job_store |-> Unattached]

\* app.py is not running
AppIdle ==
    /\ env = RequiredVars
    /\ main = "none"
    /\ initialization_status = NotStarted
    /\ lock = NoTask
    /\ tasks = [t \in Triggers |-> "none"]
    /\ workers = [t \in Triggers |-> "none"]
    /\ vector_stores = NoStores
    /\ bot = NoBot
    /\ polling = [pc |-> "none", cancel |-> FALSE]
    /\ runs = [r \in Runners |-> IdleRun]
    /\ network = {}

OthersIdle == InitIndexIdle /\ AppIdle

-----------------------------------------------------------------------------
(* Bounds of the model *)

\* largest number of records of the general namespace in the search specification
MaxRecords == 7
\* number of values of the modelled str hash (Python's is 2^64)
HashMod == 5

-----------------------------------------------------------------------------
(* config.py *)

SUBJECT_WEIGHT == 4     \* 0.4, in tenths
CONTENT_WEIGHT == 6     \* 0.6, in tenths
TOP_K == 3
NAMESPACE == "default"

Namespaces == {"default", "jobs", "candidates"}

-----------------------------------------------------------------------------
(* Texts *)

None == <<"<None>">>
EmptyText == <<>>

IsSpace(ch) == ch = " "

RECURSIVE LStrip(_)
LStrip(s) == IF s # <<>> /\ IsSpace(Head(s)) THEN LStrip(Tail(s)) ELSE s

RECURSIVE RStrip(_)
RStrip(s) ==
    IF s # <<>> /\ IsSpace(s[Len(s)]) THEN RStrip(SubSeq(s, 1, Len(s) - 1)) ELSE s

\* str.strip()
Strip(s) == RStrip(LStrip(s))

CharCode(ch) ==
    CASE ch = " " -> 0
      [] ch = "a" -> 1
      [] ch = "b" -> 2
      [] ch = "c" -> 3
      [] ch = "d" -> 4
      [] ch = "e" -> 6
      [] OTHER -> 7

RECURSIVE CodeSum(_)
CodeSum(s) == IF s = <<>> THEN 0 ELSE CharCode(Head(s)) + CodeSum(Tail(s))

\* hash(str): a function of the characters into a fixed range, 0 for the
\* empty string, equal on equal strings and not injective
PyHash(s) == IF s = <<>> THEN 0 ELSE CodeSum(s) % HashMod

\* x or ""
OrEmpty(x) == IF x = None \/ x = EmptyText THEN EmptyText ELSE x

-----------------------------------------------------------------------------
(* Embedding oracle and vectors *)

\* openai embeddings.create, a fixed vector per input text: the sum of a
\* vector per character, <<1, 1>> for a text without weight
CharVector(ch) ==
    CASE ch = "s" -> <<1, 1>>
      [] ch = "a" -> <<2, 0>>
      [] ch = "b" -> <<1, 2>>
      [] ch = "c" -> <<0, 2>>
      [] ch = "d" -> <<1, 0>>
      [] ch = "e" -> <<3, 0>>
      [] ch = " " -> <<0, 1>>
      [] OTHER    -> <<0, 0>>

RECURSIVE VectorSum(_)
VectorSum(text) ==
    IF text = <<>> THEN <<0, 0>>
    ELSE LET v == CharVector(Head(text))
             w == VectorSum(Tail(text))
         IN  <<v[1] + w[1], v[2] + w[2]>>

Embedding(text) == IF VectorSum(text) = <<0, 0>> THEN <<1, 1>> ELSE VectorSum(text)

Min(a, b) == IF a <= b THEN a ELSE b

\* [s * SUBJECT_WEIGHT + c * CONTENT_WEIGHT for s, c in zip(...)]
Combine(subject_embedding, content_embedding) ==
    [k \in 1..Min(Len(subject_embedding), Len(content_embedding)) |->
        subject_embedding[k] * SUBJECT_WEIGHT + content_embedding[k] * CONTENT_WEIGHT]

RECURSIVE Dot(_, _)
Dot(u, v) ==
    IF u = <<>> \/ v = <<>> THEN 0 ELSE Head(u) * Head(v) + Dot(Tail(u), Tail(v))

\* cosine similarity of the query vector q with the record vector v, as the
\* fraction <<(q.v)^2, v.v>> (the components are non-negative and |q| is the
\* same for every record of one query)
Score(q, v) == <<Dot(q, v) * Dot(q, v), Dot(v, v)>>

ScoreGE(s, t) == s[1] * t[2] >= t[1] * s[2]

-----------------------------------------------------------------------------
(* The remote index: upsert and query *)

\* record ids: <<prefix, message_id>>, the prefix "" for a bare message_id
RecordId(prefix, message_id) == <<prefix, message_id>>

PrefixRank(p) == CASE p = "" -> 0 [] p = "job_" -> 1 [] OTHER -> 2

IdBefore(x, y) ==
    \/ x[2] < y[2]
    \/ x[2] = y[2] /\ PrefixRank(x[1]) <= PrefixRank(y[1])

EmptyIndex == [ns \in Namespaces |-> <<>>]

Ids(idx, ns) == DOMAIN idx[ns]

\* index.upsert(vectors=[{id, values, metadata}], namespace): overwrite by id
Upsert(idx, ns, id, values, metadata) ==
    [idx EXCEPT ![ns] =
        [x \in (DOMAIN idx[ns]) \cup {id} |->
            IF x = id THEN [id |-> id, values |-> values, metadata |-> metadata]
            ELSE idx[ns][x]]]

\* a match of a query: the record with its score
Match(rec, q) == [id |-> rec.id, score |-> Score(q, rec.values), metadata |-> rec.metadata]

\* m is ranked before n: higher score, equal scores in the order of the ids
\* (every order of equal scores is the order of the ids of some store)
RankedBefore(m, n) ==
    \/ ~ScoreGE(n.score, m.score)
    \/ ScoreGE(m.score, n.score) /\ IdBefore(m.id, n.id)

RECURSIVE Insert(_, _)
Insert(m, sorted) ==
    IF sorted = <<>> THEN <<m>>
    ELSE IF RankedBefore(m, Head(sorted)) THEN <<m>> \o sorted
         ELSE <<Head(sorted)>> \o Insert(m, Tail(sorted))

\* the records of S by descending score
RECURSIVE Ranked(_, _, _)
Ranked(recs, S, q) ==
    IF S = {} THEN <<>>
    ELSE LET x == CHOOSE y \in S : TRUE
         IN  Insert(Match(recs[x], q), Ranked(recs, S \ {x}, q))

\* index.query(namespace, vector, top_k, include_metadata=True).matches:
\* the top_k records by descending score, all of them if there are fewer
Query(idx, ns, vector, top_k) ==
    LET all == Ranked(idx[ns], DOMAIN idx[ns], vector)
    IN  SubSeq(all, 1, Min(top_k, Len(all)))

-----------------------------------------------------------------------------
(* VectorStore *)

\* a call that returns v, a call that raises e
Return(v) == [ok |-> TRUE, value |-> v]
Raise(e) == [ok |-> FALSE, value |-> e]

\* metadata that keeps the values of the message as they are
RawMetadata(email_data) ==
    [subject   |-> email_data.subject,
     content   |-> email_data.content,
     thread_id |-> email_data.thread_id,
     sender    |-> email_data.sender]

\* metadata of store_email: None replaced by ""
EmailMetadata(email_data) ==
    [subject   |-> OrEmpty(email_data.subject),
     content   |-> OrEmpty(email_data.content),
     thread_id |-> OrEmpty(email_data.thread_id),
     sender    |-> OrEmpty(email_data.sender)]

max_retries == 3
retry_delay == 2

\* the time.sleep(retry_delay) made after each of n failed attempts
Delays(n) == [k \in 1..n |-> retry_delay]

\* store_email retrying until an attempt succeeds
StoreEmailUnboundedRetry(idx, email_data, embedding, fails) ==
    [index    |-> Upsert(idx, NAMESPACE, RecordId("", email_data.message_id), embedding,
                         EmailMetadata(email_data)),
     result   |-> Return(None),
     attempts |-> fails + 1,
     delays   |-> Delays(fails)]

\* store_email keyed by the content instead of the message id
StoreEmailKeyedByContent(idx, email_data, embedding, fails) ==
    IF fails < max_retries
    THEN [index    |-> Upsert(idx, NAMESPACE, RecordId("", CodeSum(email_data.content)),
                              embedding, EmailMetadata(email_data)),
          result   |-> Return(None),
          attempts |-> fails + 1,
          delays   |-> Delays(fails)]
    ELSE [index |-> idx, result |-> Raise("upsert"), attempts |-> max_retries,
          delays |-> Delays(max_retries - 1)]

\* a store_email that returns before the record is written
StoreEmailDeferred(idx, email_data, embedding, fails) ==
    [index |-> idx, result |-> Return(None), attempts |-> 0, delays |-> <<>>]

\* store_email: up to max_retries upsert attempts, of which the first `fails`
\* fail; the last failure is raised
store_email(idx, email_data, embedding, fails) ==
    IF fails < max_retries
    THEN [index    |-> Upsert(idx, NAMESPACE, RecordId("", email_data.message_id), embedding,
                              EmailMetadata(email_data)),
          result   |-> Return(None),
          attempts |-> fails + 1,
          delays   |-> Delays(fails)]
    ELSE [index |-> idx, result |-> Raise("upsert"), attempts |-> max_retries,
          delays |-> Delays(max_retries - 1)]

\* the loop without its break
RECURSIVE DeduplicateNoBreak(_, _, _)
DeduplicateNoBreak(matches, seen_contents, unique_results) ==
    IF matches = <<>> THEN unique_results
    ELSE LET match == Head(matches)
             content == Strip(match.metadata.content)
             content_hash == PyHash(content)
         IN  IF content_hash \notin seen_contents /\ content # EmptyText
             THEN DeduplicateNoBreak(Tail(matches), seen_contents \cup {content_hash},
                                     Append(unique_results, match))
             ELSE DeduplicateNoBreak(Tail(matches), seen_contents, unique_results)

\* the loop comparing the contents as stored, without strip()
RECURSIVE DeduplicateRaw(_, _, _)
DeduplicateRaw(matches, seen_contents, unique_results) ==
    IF matches = <<>> THEN unique_results
    ELSE LET match == Head(matches)
             content == match.metadata.content
             content_hash == PyHash(content)
         IN  IF content_hash \notin seen_contents /\ content # EmptyText
             THEN IF Len(unique_results) + 1 >= TOP_K
                  THEN Append(unique_results, match)
                  ELSE DeduplicateRaw(Tail(matches), seen_contents \cup {content_hash},
                                      Append(unique_results, match))
             ELSE DeduplicateRaw(Tail(matches), seen_contents, unique_results)

\* the deduplication loop of weighted_similarity_search over results.matches
RECURSIVE Deduplicate(_, _, _)
Deduplicate(matches, seen_contents, unique_results) ==
    IF matches = <<>> THEN unique_results
    ELSE LET match == Head(matches)
             content == Strip(match.metadata.content)
             content_hash == PyHash(content)
         IN  IF content_hash \notin seen_contents /\ content # EmptyText
             THEN IF Len(unique_results) + 1 >= TOP_K
                  THEN Append(unique_results, match)
                  ELSE Deduplicate(Tail(matches), seen_contents \cup {content_hash},
                                   Append(unique_results, match))
             ELSE Deduplicate(Tail(matches), seen_contents, unique_results)

Metadatas(matches) == [k \in 1..Len(matches) |-> matches[k].metadata]

\* the search asking the index for TOP_K matches only
SearchNoOverFetch(idx, subject_embedding, content_embedding) ==
    LET combined_embedding == Combine(subject_embedding, content_embedding)
        matches == Query(idx, NAMESPACE, combined_embedding, TOP_K)
    IN  Return(Metadatas(Deduplicate(matches, {}, <<>>)))

\* the search reading results.matches[0 .. 2*TOP_K - 1] by position
SearchByPosition(idx, subject_embedding, content_embedding) ==
    LET combined_embedding == Combine(subject_embedding, content_embedding)
        matches == Query(idx, NAMESPACE, combined_embedding, TOP_K * 2)
    IN  IF Len(matches) < TOP_K * 2 THEN Raise("IndexError")
        ELSE Return(Metadatas(Deduplicate(matches, {}, <<>>)))

weighted_similarity_search(idx, subject_embedding, content_embedding) ==
    LET combined_embedding == Combine(subject_embedding, content_embedding)
        matches == Query(idx, NAMESPACE, combined_embedding, TOP_K * 2)
    IN  Return(Metadatas(Deduplicate(matches, {}, <<>>)))

-----------------------------------------------------------------------------
(* JobCandidateStore *)

\* default of the top_k parameter of find_matching_candidates / find_matching_jobs
FIND_TOP_K == 3

\* job_text of store_job: the labelled fields
JobText(job_data) ==
    <<"T">> \o job_data.title \o <<"C">> \o job_data.company \o
    <<"R">> \o job_data.requirements \o <<"D">> \o job_data.description

\* candidate_text of store_candidate
CandidateText(candidate_data) ==
    <<"N">> \o candidate_data.name \o <<"S">> \o candidate_data.skills \o
    <<"E">> \o candidate_data.experience \o <<"B">> \o candidate_data.background

\* {**job_data, "type": "job"}
JobMetadata(job_data) ==
    [id |-> job_data.id, title |-> job_data.title, description |-> job_data.description,
     company |-> job_data.company, requirements |-> job_data.requirements, type |-> "job"]

\* {**candidate_data, "type": "candidate"}
CandidateMetadata(candidate_data) ==
    [id |-> candidate_data.id, name |-> candidate_data.name, skills |-> candidate_data.skills,
     experience |-> candidate_data.experience, background |-> candidate_data.background,
     type |-> "candidate"]

\* store_job writing the namespace the candidates are searched in
StoreJobWrongNamespace(jidx, job_data, embed_ok, fails) ==
    IF ~embed_ok THEN [index |-> jidx, result |-> Raise("embedding"), attempts |-> 0,
          delays |-> <<>>]
    ELSE IF fails < max_retries
    THEN [index    |-> Upsert(jidx, "candidates", RecordId("job_", job_data.id),
                              Embedding(JobText(job_data)), JobMetadata(job_data)),
          result   |-> Return(None),
          attempts |-> fails + 1,
          delays   |-> Delays(fails)]
    ELSE [index |-> jidx, result |-> Raise("upsert"), attempts |-> max_retries,
          delays |-> Delays(max_retries - 1)]

\* store_job: the embedding of job_text, then up to max_retries upsert
\* attempts of job_<id> into namespace "jobs"
store_job(jidx, job_data, embed_ok, fails) ==
    IF ~embed_ok THEN [index |-> jidx, result |-> Raise("embedding"), attempts |-> 0,
          delays |-> <<>>]
    ELSE IF fails < max_retries
    THEN [index    |-> Upsert(jidx, "jobs", RecordId("job_", job_data.id),
                              Embedding(JobText(job_data)), JobMetadata(job_data)),
          result   |-> Return(None),
          attempts |-> fails + 1,
          delays   |-> Delays(fails)]
    ELSE [index |-> jidx, result |-> Raise("upsert"), attempts |-> max_retries,
          delays |-> Delays(max_retries - 1)]

\* store_candidate: candidate_<id> into namespace "candidates"
store_candidate(jidx, candidate_data, embed_ok, fails) ==
    IF ~embed_ok THEN [index |-> jidx, result |-> Raise("embedding"), attempts |-> 0,
          delays |-> <<>>]
    ELSE IF fails < max_retries
    THEN [index    |-> Upsert(jidx, "candidates", RecordId("candidate_", candidate_data.id),
                              Embedding(CandidateText(candidate_data)),
                              CandidateMetadata(candidate_data)),
          result   |-> Return(None),
          attempts |-> fails + 1,
          delays   |-> Delays(fails)]
    ELSE [index |-> jidx, result |-> Raise("upsert"), attempts |-> max_retries,
          delays |-> Delays(max_retries - 1)]

\* find_matching_candidates returning every candidate, whatever top_k
FindCandidatesUnbounded(jidx, job_description, top_k, embed_ok, query_ok) ==
    IF ~embed_ok THEN Raise("embedding")
    ELSE IF ~query_ok THEN Raise("query")
    ELSE Return(Metadatas(Query(jidx, "candidates", Embedding(job_description),
                                Cardinality(Ids(jidx, "candidates")))))

\* find_matching_candidates(job_description, top_k): the metadata of the
\* matches of namespace "candidates", no deduplication
find_matching_candidates(jidx, job_description, top_k, embed_ok, query_ok) ==
    IF ~embed_ok THEN Raise("embedding")
    ELSE IF ~query_ok THEN Raise("query")
    ELSE Return(Metadatas(Query(jidx, "candidates", Embedding(job_description), top_k)))

\* find_matching_jobs(candidate_profile, top_k)
find_matching_jobs(jidx, candidate_profile, top_k, embed_ok, query_ok) ==
    IF ~embed_ok THEN Raise("embedding")
    ELSE IF ~query_ok THEN Raise("query")
    ELSE Return(Metadatas(Query(jidx, "jobs", Embedding(candidate_profile), top_k)))

-----------------------------------------------------------------------------
(* EmailClassifier *)

\* The text of an oracle response is a sequence of tokens: words, numerals,
\* ":" "," and " ".

\* str.lower() on a token
Lower(tok) ==
    CASE tok = "JOB" -> "job"
      [] tok = "CANDIDATE" -> "candidate"
      [] tok = "OTHER" -> "other"
      [] tok = "TECHNICAL" -> "technical"
      [] tok = "JOB_RELATED" -> "job_related"
      [] tok = "GENERAL" -> "general"
      [] OTHER -> tok

LowerAll(text) == [k \in 1..Len(text) |-> Lower(text[k])]

\* str.split(sep): the parts between the separators
RECURSIVE Split(_, _)
Split(text, sep) ==
    IF \A k \in 1..Len(text) : text[k] # sep THEN <<text>>
    ELSE LET k == CHOOSE i \in 1..Len(text) :
                     text[i] = sep /\ \A j \in 1..(i - 1) : text[j] # sep
         IN  <<SubSeq(text, 1, k - 1)>> \o Split(SubSeq(text, k + 1, Len(text)), sep)

\* EmailCategory(value)
EmailCategory(value) ==
    IF value \in {<<"job">>, <<"candidate">>, <<"other">>} THEN Return(value[1])
    ELSE Raise("ValueError")

\* float(text), in hundredths: surrounding whitespace is ignored
Float(text) ==
    LET t == Strip(text)
    IN  IF Len(t) # 1 THEN Raise("ValueError")
        ELSE CASE t[1] = "0.5"  -> Return(50)
               [] t[1] = "0.69" -> Return(69)
               [] t[1] = "0.7"  -> Return(70)
               [] t[1] = "0.95" -> Return(95)
               [] t[1] = "1.5"  -> Return(150)
               [] OTHER         -> Raise("ValueError")

\* a failed call of the chat completion API
ApiError == <<"<APIError>">>

\* classify_email, given what chat.completions.create returns or raises
classify_email(response) ==
    IF response = ApiError THEN Raise("APIError")
    ELSE LET parts == Split(Strip(LowerAll(response)), ":")
         IN  IF Len(parts) # 2 THEN Raise("ValueError")
             ELSE LET category == EmailCategory(parts[1])
                      confidence == Float(parts[2])
                  IN  IF ~category.ok THEN category
                      ELSE IF ~confidence.ok THEN confidence
                      ELSE Return([category |-> category.value,
                                   confidence |-> confidence.value])

\* EmailType(value)
EmailType(value) ==
    IF value \in {<<"technical">>, <<"job_related">>, <<"general">>} THEN Return(value[1])
    ELSE Raise("ValueError")

\* detect_email_type, given the oracle's response
detect_email_type(response) ==
    IF response = ApiError THEN Raise("APIError")
    ELSE EmailType(Strip(LowerAll(response)))

\* unique_emails holding every message of the input
EveryEmail(emails, seen_contents) == emails

\* unique_emails of _format_similar_emails: the first message of each content
RECURSIVE UniqueEmails(_, _)
UniqueEmails(emails, seen_contents) ==
    IF emails = <<>> THEN <<>>
    ELSE IF Head(emails).content \notin seen_contents
         THEN <<Head(emails)>> \o
              UniqueEmails(Tail(emails), seen_contents \cup {Head(emails).content})
         ELSE UniqueEmails(Tail(emails), seen_contents)

\* _format_similar_emails: "Email i: Subject, Content" of the unique emails
_format_similar_emails(emails) ==
    LET unique_emails == UniqueEmails(emails, {})
    IN  [k \in 1..Len(unique_emails) |->
            [n |-> k, subject |-> unique_emails[k].subject,
             content |-> unique_emails[k].content]]

\* message.content of a completion without content: None
NoContent == [kind |-> "None"]

\* analyze_similar_emails: the type is detected, the prompt built with the
\* framing of the type and the formatted similar emails, and the
\* completion's content returned (None when it has no content)
analyze_similar_emails(new_email, similar_emails, type_response, chat_response) ==
    LET email_type == detect_email_type(type_response)
    IN  IF ~email_type.ok THEN email_type
        ELSE IF chat_response = ApiError THEN Raise("APIError")
        ELSE IF chat_response = None THEN Return(NoContent)
        ELSE Return([kind |-> "generated", subject |-> new_email.subject,
                     content |-> new_email.content, framing |-> email_type.value,
                     similar |-> _format_similar_emails(similar_emails)])

-----------------------------------------------------------------------------
(* Messages *)

EmailData(message_id, subject, content, thread_id, sender) ==
    [message_id |-> message_id, subject |-> subject, content |-> content,
     thread_id |-> thread_id, sender |-> sender, references |-> <<>>]

FromEmail == <<"F">>

\* job_data of _handle_job_email
JobData(email) ==
    [id |-> email.message_id, title |-> email.subject, description |-> email.content,
     company |-> FromEmail, requirements |-> email.content]

\* candidate_data of _handle_candidate_email
CandidateData(email) ==
    [id |-> email.message_id, name |-> email.sender, skills |-> email.content,
     experience |-> FromEmail, background |-> email.content]

-----------------------------------------------------------------------------
(* Search specification: weighted_similarity_search as a function of the  *)
(* general namespace and of the query.  The namespace is any store of at   *)
(* most MaxRecords messages over the contents below; message ids are given *)
(* in the order of the contents, which loses no store up to a renaming of  *)
(* the ids.                                                                *)

SearchContents ==
    << <<>>, <<" ">>, <<"a">>, <<" ", "a">>, <<"b">>, <<"c">>, <<"d">>, <<"e">> >>

SearchQueries == { <<"a">>, <<"b">>, <<"c">> }

RECURSIVE NonDecreasing(_, _)
NonDecreasing(n, lo) ==
    IF n = 0 THEN {<<>>}
    ELSE UNION {{<<t>> \o s : s \in NonDecreasing(n - 1, t)} : t \in lo..Len(SearchContents)}

RECURSIVE StoreAll(_, _)
StoreAll(types, k) ==
    IF k = 0 THEN EmptyIndex
    ELSE LET email == EmailData(k, <<"s">>, SearchContents[types[k]], None, <<"x">>)
         IN  store_email(StoreAll(types, k - 1), email,
                         Combine(Embedding(email.subject), Embedding(email.content)), 0).index

SearchStores ==
    UNION {{StoreAll(types, n) : types \in NonDecreasing(n, 1)} : n \in 0..MaxRecords}

NoCall == [op |-> "none"]
NoResult == Return(<<>>)

OrchIdle ==
    /\ pc = "idle"
    /\ new_emails = <<>>
    /\ seen = {}
    /\ pos = 0
    /\ loc = <<>>
    /\ trace = <<>>
    /\ outcome = <<>>
    /\ outbox = <<>>

StoreMethods == {"store_email", "store_job", "store_candidate"}

NothingStored == [op \in StoreMethods |-> <<>>]

InitSearch ==
    /\ index \in SearchStores
    /\ job_index = EmptyIndex
    /\ latest = NothingStored
    /\ call = NoCall
    /\ result = NoResult
    /\ OrchIdle
    /\ OthersIdle

\* vector_store.weighted_similarity_search(generate_embedding(subject),
\*                                         generate_embedding(content))
SearchCall(subject, content) ==
    /\ call' = [op |-> "weighted_similarity_search", subject |-> subject,
                content |-> content]
    /\ result' = weighted_similarity_search(index, Embedding(subject), Embedding(content))
    /\ UNCHANGED <<store_vars, orch_vars, other_vars>>

NextSearch == \E content \in SearchQueries : SearchCall(<<"s">>, content)

SpecSearch == InitSearch /\ [][NextSearch]_vars

Searched == call.op = "weighted_similarity_search"

\* what the index returns for the search's query
SearchMatches ==
    Query(index, NAMESPACE, Combine(Embedding(call.subject), Embedding(call.content)),
          TOP_K * 2)

-----------------------------------------------------------------------------
(* Claims on weighted_similarity_search *)

Stripped(m) == Strip(m.metadata.content)

\* the elements of seq at the n smallest positions of P, in order
RECURSIVE TakeAt(_, _, _, _)
TakeAt(seq, P, k, n) ==
    IF k > Len(seq) \/ n = 0 THEN <<>>
    ELSE IF k \in P THEN <<seq[k]>> \o TakeAt(seq, P, k + 1, n - 1)
         ELSE TakeAt(seq, P, k + 1, n)

\* positions kept when contents are compared as stored
KeptByContent(seq) ==
    {k \in 1..Len(seq) :
        /\ seq[k].metadata.content # EmptyText
        /\ \A j \in 1..(k - 1) : seq[j].metadata.content # seq[k].metadata.content}

\* positions kept when stripped contents are compared by their hash
KeptByHash(seq) ==
    {k \in 1..Len(seq) :
        /\ Stripped(seq[k]) # EmptyText
        /\ \A j \in 1..(k - 1) :
              Stripped(seq[j]) # EmptyText => PyHash(Stripped(seq[j])) # PyHash(Stripped(seq[k]))}

\* C2: the search returns at most TOP_K results, no two of them with the
\* same content metadata, none with empty content.
C2_AtMostKDistinct ==
    Searched =>
        /\ result.ok
        /\ Len(result.value) <= TOP_K
        /\ \A a, b \in 1..Len(result.value) :
              a # b => result.value[a].content # result.value[b].content
        /\ \A a \in 1..Len(result.value) : result.value[a].content # EmptyText

\* the index returned 2K candidates with a repeated content among them and
\* the search returned K results
C2_Witness ==
    /\ Searched
    /\ Len(SearchMatches) = 2 * TOP_K
    /\ \E a, b \in 1..Len(SearchMatches) :
          a # b /\ SearchMatches[a].metadata.content = SearchMatches[b].metadata.content
    /\ Len(result.value) = TOP_K

\* C3 as stated: the result is the first K of the matches left after
\* dropping empty contents and contents equal to that of an earlier kept match.
C3_Original ==
    Searched =>
        result = Return(Metadatas(TakeAt(SearchMatches, KeptByContent(SearchMatches), 1, TOP_K)))

\* C3 amended: the result is the first K of the matches left after dropping
\* the contents that are empty once stripped and those whose stripped content
\* has the hash of an earlier kept match; order and metadata are those of
\* the index.
C3_ReferenceStripped ==
    Searched =>
        result = Return(Metadatas(TakeAt(SearchMatches, KeptByHash(SearchMatches), 1, TOP_K)))

\* a whitespace-only match and a match equal to an earlier one up to
\* surrounding whitespace were both dropped, and K results returned
C3_Witness ==
    /\ Searched
    /\ Len(result.value) = TOP_K
    /\ \E k \in 1..Len(SearchMatches) :
          /\ SearchMatches[k].metadata.content # EmptyText
          /\ Stripped(SearchMatches[k]) = EmptyText
    /\ \E j, k \in 1..Len(SearchMatches) :
          /\ j < k
          /\ j \in KeptByHash(SearchMatches)
          /\ SearchMatches[j].metadata.content # SearchMatches[k].metadata.content
          /\ Stripped(SearchMatches[j]) = Stripped(SearchMatches[k])
          /\ SearchMatches[k].metadata \notin {result.value[a] : a \in 1..Len(result.value)}

\* every record of the general namespace, in the order of the index
FullRanking ==
    Query(index, NAMESPACE, Combine(Embedding(call.subject), Embedding(call.content)),
          Cardinality(Ids(index, NAMESPACE)))

StoredContents ==
    {index[NAMESPACE][x].metadata.content : x \in Ids(index, NAMESPACE)} \ {EmptyText}

\* C4 as stated: K results whenever K distinct non-empty contents are
\* stored, and they are the K highest-scoring distinct ones.
C4_Original ==
    Searched =>
        /\ Cardinality(StoredContents) >= TOP_K => Len(result.value) = TOP_K
        /\ result.value = Metadatas(TakeAt(FullRanking, KeptByContent(FullRanking), 1, TOP_K))

\* the best-ranked record of each content (stripped, non-empty, by hash)
\* among the 2K best-ranked records of the namespace
LeadersInReach == {k \in KeptByHash(FullRanking) : k <= 2 * TOP_K}

\* C4 amended: the search returns min(K, n) results, n the number of distinct
\* (stripped, non-empty, by hash) contents among the 2K best-ranked records:
\* the best-ranked record of each of the first such contents, in rank order.
C4_TopKWithinReach ==
    Searched =>
        /\ Len(result.value) = Min(TOP_K, Cardinality(LeadersInReach))
        /\ result.value = Metadatas(TakeAt(FullRanking, LeadersInReach, 1, TOP_K))

\* K distinct contents are stored and fewer than K results are returned,
\* the missing ones ranking below the 2K best records
C4_Witness ==
    /\ Searched
    /\ Cardinality(KeptByHash(FullRanking)) >= TOP_K
    /\ Len(result.value) < TOP_K
    /\ Len(result.value) > 0

\* C5: with N < 2K records the search raises nothing and returns at most N
\* results, none when the namespace is empty.
C5_FewRecords ==
    (Searched /\ Cardinality(Ids(index, NAMESPACE)) < 2 * TOP_K) =>
        /\ result.ok
        /\ Len(result.value) <= Cardinality(Ids(index, NAMESPACE))
        /\ Ids(index, NAMESPACE) = {} => result.value = <<>>

C5_Witness ==
    /\ Searched
    /\ Ids(index, NAMESPACE) = {}
    /\ result = Return(<<>>)

-----------------------------------------------------------------------------------------------------------------------------------------------------
(* Store specification: a client that constructs one of the two stores    *)
(* (VectorStore as test_vector_store does, or JobCandidateStore) and      *)
(* calls its methods in any order, from an empty index.  The two stores   *)
(* are separate objects on separate indexes.                              *)

\* largest message id of the store specification
MaxIds == 2

StoreIds == 1..MaxIds
StoreTexts == { <<"a">>, <<"b">> }
StoreEmails ==
    {EmailData(id, <<"s">>, content, None, <<"x">>) : id \in StoreIds, content \in StoreTexts}

\* messages with fields that are None
SparseEmails ==
    {EmailData(id, None, <<"a">>, <<"t">>, None) : id \in StoreIds} \cup
    {EmailData(id, <<"s">>, None, None, <<"x">>) : id \in StoreIds}

\* a store that was not constructed
NoStore == <<>>

\* the outcomes of the external calls of a store method: the embedding
\* fails, or the first `fails` upsert attempts fail
StoreFaults ==
    {[embed_ok |-> FALSE, fails |-> 0]} \cup
    {[embed_ok |-> TRUE, fails |-> f] : f \in 0..max_retries}

FindFaults ==
    {[embed_ok |-> FALSE, query_ok |-> TRUE], [embed_ok |-> TRUE, query_ok |-> FALSE],
     [embed_ok |-> TRUE, query_ok |-> TRUE]}

InitStore ==
    /\ \/ index = EmptyIndex /\ job_index = NoStore
       \/ index = NoStore /\ job_index = EmptyIndex
    /\ latest = NothingStored
    /\ call = NoCall
    /\ result = NoResult
    /\ OrchIdle
    /\ OthersIdle

\* the history after a store method returned or raised
Remember(op, message_id, data, res) ==
    IF res.ok
    THEN [latest EXCEPT ![op] =
            [x \in (DOMAIN latest[op]) \cup {message_id} |->
                IF x = message_id THEN data ELSE latest[op][x]]]
    ELSE latest

\* the call replaced the metadata stored under id by other metadata
Replaces(before, after, ns, id) ==
    /\ id \in Ids(before, ns)
    /\ id \in Ids(after, ns)
    /\ before[ns][id].metadata # after[ns][id].metadata

StoreEmailCall(email, fails) ==
    /\ index # NoStore
    /\ LET out == store_email(index, email,
                              Combine(Embedding(email.subject), Embedding(email.content)),
                              fails)
       IN  /\ index' = out.index
           /\ latest' = Remember("store_email", email.message_id, email, out.result)
           /\ call' = [op |-> "store_email", attempts |-> out.attempts, fails |-> fails,
                       delays |-> out.delays,
                       replaced |-> Replaces(index, out.index, NAMESPACE,
                                             RecordId("", email.message_id))]
           /\ result' = out.result
    /\ UNCHANGED <<job_index, orch_vars, other_vars>>

StoreJobCall(email, embed_ok, fails) ==
    /\ job_index # NoStore
    /\ LET out == store_job(job_index, JobData(email), embed_ok, fails)
       IN  /\ job_index' = out.index
           /\ latest' = Remember("store_job", email.message_id, JobData(email), out.result)
           /\ call' = [op |-> "store_job", attempts |-> out.attempts, fails |-> fails,
                       delays |-> out.delays,
                       replaced |-> Replaces(job_index, out.index, "jobs",
                                             RecordId("job_", email.message_id))]
           /\ result' = out.result
    /\ UNCHANGED <<index, orch_vars, other_vars>>

StoreCandidateCall(email, embed_ok, fails) ==
    /\ job_index # NoStore
    /\ LET out == store_candidate(job_index, CandidateData(email), embed_ok, fails)
       IN  /\ job_index' = out.index
           /\ latest' = Remember("store_candidate", email.message_id, CandidateData(email),
                                 out.result)
           /\ call' = [op |-> "store_candidate", attempts |-> out.attempts, fails |-> fails,
                       delays |-> out.delays,
                       replaced |-> Replaces(job_index, out.index, "candidates",
                                             RecordId("candidate_", email.message_id))]
           /\ result' = out.result
    /\ UNCHANGED <<index, orch_vars, other_vars>>

FindCandidatesCall(text, embed_ok, query_ok) ==
    /\ job_index # NoStore
    /\ call' = [op |-> "find_matching_candidates", text |-> text]
    /\ result' = find_matching_candidates(job_index, text, FIND_TOP_K, embed_ok, query_ok)
    /\ UNCHANGED <<store_vars, orch_vars, other_vars>>

FindJobsCall(text, embed_ok, query_ok) ==
    /\ job_index # NoStore
    /\ call' = [op |-> "find_matching_jobs", text |-> text]
    /\ result' = find_matching_jobs(job_index, text, FIND_TOP_K, embed_ok, query_ok)
    /\ UNCHANGED <<store_vars, orch_vars, other_vars>>

NextStore ==
    \/ \E email \in StoreEmails \cup SparseEmails, fails \in 0..max_retries :
          StoreEmailCall(email, fails)
    \/ \E email \in StoreEmails, f \in StoreFaults : StoreJobCall(email, f.embed_ok, f.fails)
    \/ \E email \in StoreEmails, f \in StoreFaults :
          StoreCandidateCall(email, f.embed_ok, f.fails)
    \/ \E text \in StoreTexts, f \in FindFaults :
          FindCandidatesCall(text, f.embed_ok, f.query_ok)
    \/ \E text \in StoreTexts, f \in FindFaults : FindJobsCall(text, f.embed_ok, f.query_ok)

SpecStore == InitStore /\ [][NextStore]_vars

-----------------------------------------------------------------------------
(* Claims on the stores *)

IsStoredCandidate(m) ==
    /\ m.type = "candidate"
    /\ m.id \in DOMAIN latest["store_candidate"]
    /\ LET d == latest["store_candidate"][m.id]
       IN  /\ m.name = d.name
           /\ m.skills = d.skills
           /\ m.experience = d.experience
           /\ m.background = d.background

IsStoredJob(m) ==
    /\ m.type = "job"
    /\ m.id \in DOMAIN latest["store_job"]
    /\ LET d == latest["store_job"][m.id]
       IN  /\ m.title = d.title
           /\ m.description = d.description
           /\ m.company = d.company
           /\ m.requirements = d.requirements

\* C6: find_matching_candidates returns only what store_candidate wrote and
\* find_matching_jobs only what store_job wrote; a stored job is never among
\* the candidates returned.
C6_NamespaceIsolation ==
    /\ (call.op = "find_matching_candidates" /\ result.ok) =>
          \A k \in 1..Len(result.value) : IsStoredCandidate(result.value[k])
    /\ (call.op = "find_matching_jobs" /\ result.ok) =>
          \A k \in 1..Len(result.value) : IsStoredJob(result.value[k])

\* a job was stored and find_matching_candidates, asked with the job's own
\* description, returned candidates
C6_Witness ==
    /\ call.op = "find_matching_candidates"
    /\ result.ok
    /\ Len(result.value) >= 2
    /\ \E x \in DOMAIN latest["store_job"] : latest["store_job"][x].description = call.text

Coerced(x) == IF x = None THEN EmptyText ELSE x

\* C7: each namespace holds exactly one record per message id stored into
\* it, carrying the data of the latest successful store of that id.
C7_UpsertIdempotence ==
    /\ index # NoStore =>
          /\ Ids(index, NAMESPACE) = {RecordId("", x) : x \in DOMAIN latest["store_email"]}
          /\ \A x \in DOMAIN latest["store_email"] :
                LET m == index[NAMESPACE][RecordId("", x)].metadata
                    d == latest["store_email"][x]
                IN  /\ m.subject = Coerced(d.subject)
                    /\ m.content = Coerced(d.content)
                    /\ m.thread_id = Coerced(d.thread_id)
                    /\ m.sender = Coerced(d.sender)
    /\ job_index # NoStore =>
          /\ Ids(job_index, "jobs") = {RecordId("job_", x) : x \in DOMAIN latest["store_job"]}
          /\ \A x \in DOMAIN latest["store_job"] :
                IsStoredJob(job_index["jobs"][RecordId("job_", x)].metadata)
          /\ Ids(job_index, "candidates") =
                {RecordId("candidate_", x) : x \in DOMAIN latest["store_candidate"]}
          /\ \A x \in DOMAIN latest["store_candidate"] :
                IsStoredCandidate(job_index["candidates"][RecordId("candidate_", x)].metadata)

\* a message id was stored again with other metadata, next to another record
C7_Witness ==
    /\ call.op = "store_email"
    /\ result.ok
    /\ call.replaced
    /\ Cardinality(Ids(index, NAMESPACE)) = 2

-----------------------------------------------------------------------------
(* MailingBot: process_new_emails and _process_single_email, one action   *)
(* per call the bot makes on a store, an oracle or the mail transport.    *)

\* largest batch fetch_new_emails returns
MaxBatch == 2
\* pairs of job and candidate messages of the inbox the stores were built from
BootPairs == 4

\* 0.7 of "if confidence < 0.7", in hundredths
CONFIDENCE_THRESHOLD == 70

\* the unseen messages the mailbox can hold
MailPool ==
    {EmailData(1, <<"s">>, <<"a">>, None, <<"x">>),
     EmailData(2, <<"s">>, <<"b">>, <<"t">>, <<"y">>)}

\* the sequences of at most n different messages of S
RECURSIVE SeqsUpTo(_, _)
SeqsUpTo(S, n) ==
    IF n = 0 THEN {<<>>}
    ELSE SeqsUpTo(S, n - 1) \cup
         {Append(q, x) : q \in {r \in SeqsUpTo(S, n - 1) : Len(r) = n - 1},
                         x \in S}

\* what fetch_new_emails can return: UNSEEN messages, each once
Batches ==
    {b \in SeqsUpTo(MailPool, MaxBatch) :
        \A i, j \in 1..Len(b) : i # j => b[i].message_id # b[j].message_id}

\* responses of the classification oracle
ClassifierResponses ==
    { <<"JOB", ":", "0.95">>, <<"job", ":", "0.7">>, <<" ", "job", ":", " ", "0.69", " ">>,
      <<"job", ":", "1.5">>,
      <<"candidate", ":", "0.95">>, <<"candidate", ":", "0.5">>,
      <<"other", ":", "0.95">>, <<"other", ":", "0.5">>,
      <<"job">>, <<"JOB", ",", "0.95">>, <<"spam", ":", "0.95">>, <<"job", ":", "high">>,
      <<"job", " ", ":", "0.95">>, <<"job", ":", "0.95", ":", "0.5">>,
      ApiError }

\* responses of the type oracle
TypeResponses == { <<"TECHNICAL">>, <<" ", "general">>, <<"unsure">>, ApiError }

\* responses of the reply oracle: a text, no content, a failed call
ChatResponses == { <<"reply">>, None, ApiError }

\* the stores as initialize_system leaves them for an inbox of k job
\* messages (ids 10 + j) and k candidate messages (ids 20 + j)
BootJob(j) ==
    EmailData(10 + j, <<"s">>, IF j % 2 = 1 THEN <<"a">> ELSE <<"b">>, None, <<"x">>)

BootCandidate(j) ==
    EmailData(20 + j, <<"s">>, IF j % 2 = 1 THEN <<"b">> ELSE <<"a">>, None, <<"y">>)

RECURSIVE BootIndex(_)
BootIndex(k) ==
    IF k = 0 THEN EmptyIndex
    ELSE LET e == BootJob(k)
             c == BootCandidate(k)
             one == store_email(BootIndex(k - 1), e,
                                Combine(Embedding(e.subject), Embedding(e.content)), 0).index
         IN  store_email(one, c, Combine(Embedding(c.subject), Embedding(c.content)), 0).index

RECURSIVE BootJobIndex(_)
BootJobIndex(k) ==
    IF k = 0 THEN EmptyIndex
    ELSE store_candidate(store_job(BootJobIndex(k - 1), JobData(BootJob(k)), TRUE, 0).index,
                         CandidateData(BootCandidate(k)), TRUE, 0).index

NoLocals ==
    [subject_embedding |-> <<>>, content_embedding |-> <<>>, raw_category |-> "",
     confidence |-> 0, category |-> "", found |-> <<>>, reply |-> <<>>]

\* the bot as app.py starts it, with the stores of initialize_system
\* attached, or as run_bot.py starts it, with no store
Init ==
    /\ \/ \E k \in {0, BootPairs} :
             /\ index = BootIndex(k)
             /\ job_index = BootJobIndex(k)
       \/ index = NoStore /\ job_index = NoStore
    /\ latest = NothingStored
    /\ call = NoCall
    /\ result = NoResult
    /\ pc = "idle"
    /\ new_emails = <<>>
    /\ seen = {}
    /\ pos = 0
    /\ loc = NoLocals
    /\ trace = <<>>
    /\ outcome = <<>>
    /\ outbox = <<>>
    /\ OthersIdle

email == new_emails[pos]

\* "except Exception as e: ... continue" of process_new_emails re-raising
ExceptReraise == "raised"

\* where process_new_emails goes when _process_single_email raises:
\* "except Exception as e: ... continue"
ExceptContinue == "loop"

\* _process_single_email raised e at the current step: the error is logged
Raised(e, events) ==
    /\ outcome' = [outcome EXCEPT ![pos] = [status |-> "failed", error |-> e]]
    /\ trace' = trace \o events
    /\ pc' = ExceptContinue
    /\ result' = IF ExceptContinue = "loop" THEN result ELSE Raise(e)
    /\ UNCHANGED <<loc, new_emails, seen, pos, outbox, call>>

\* a check of the stores that lets every bot through
NeverMissing(vector_store, job_store) == FALSE

\* "if not self.vector_store or not self.job_store"
NotInitialized(vector_store, job_store) == vector_store = NoStore \/ job_store = NoStore

\* process_new_emails is called: the stores are checked, the unseen
\* messages fetched (which marks them seen)
ProcessNewEmails(batch, fetch_ok) ==
    /\ pc \in {"idle", "raised"}
    /\ \A k \in 1..Len(batch) : batch[k].message_id \notin seen
    /\ call' = [op |-> "process_new_emails"]
    /\ IF NotInitialized(index, job_index)
       THEN /\ result' = Raise("RuntimeError")
            /\ pc' = "raised"
            /\ UNCHANGED <<new_emails, seen, pos, outcome, outbox, loc, trace>>
       ELSE IF ~fetch_ok
       THEN /\ result' = Raise("fetch")
            /\ pc' = "raised"
            /\ new_emails' = <<>>
            /\ seen' = seen
            /\ pos' = 0
            /\ outcome' = <<>>
            /\ outbox' = <<>>
            /\ loc' = NoLocals
            /\ trace' = <<>>
       ELSE /\ result' = NoResult
            /\ pc' = "loop"
            /\ new_emails' = batch
            /\ seen' = seen \cup {batch[k].message_id : k \in 1..Len(batch)}
            /\ pos' = 0
            /\ outcome' = [k \in 1..Len(batch) |-> [status |-> "pending", error |-> ""]]
            /\ outbox' = <<>>
            /\ loc' = NoLocals
            /\ trace' = <<>>
    /\ UNCHANGED store_vars
    /\ UNCHANGED other_vars

\* "for email in new_emails": the next message, or the return
NextEmail ==
    /\ pc = "loop"
    /\ IF pos < Len(new_emails)
       THEN /\ pos' = pos + 1
            /\ pc' = "embed"
            /\ UNCHANGED result
       ELSE /\ pc' = "idle"
            /\ result' = Return(None)
            /\ UNCHANGED pos
    /\ loc' = NoLocals
    /\ trace' = <<>>
    /\ UNCHANGED <<store_vars, call, new_emails, seen, outcome, outbox>>
    /\ UNCHANGED other_vars

\* 1. the two embeddings
EmbedStep(embed_ok) ==
    /\ pc = "embed"
    /\ IF embed_ok
       THEN /\ loc' = [loc EXCEPT !.subject_embedding = Embedding(email.subject),
                                  !.content_embedding = Embedding(email.content)]
            /\ trace' = trace \o <<[op |-> "embed"]>>
            /\ pc' = "store"
            /\ UNCHANGED <<result, new_emails, seen, pos, outcome, outbox, call>>
       ELSE Raised("APIError", <<[op |-> "embed"]>>)
    /\ UNCHANGED store_vars
    /\ UNCHANGED other_vars

\* an except clause of step 2 that prints the failure and goes on
StoreFailureSwallowed(res) == FALSE

\* "except Exception as e: print(...); raise" of step 2
StoreFailureRaised(res) == ~res.ok

\* 2. store_email of the combined embedding
StoreStep(fails) ==
    /\ pc = "store"
    /\ LET combined_embedding == Combine(loc.subject_embedding, loc.content_embedding)
           out == store_email(index, email, combined_embedding, fails)
           event == [op |-> "upsert", namespace |-> NAMESPACE,
                     id |-> RecordId("", email.message_id)]
       IN  /\ index' = out.index
           /\ latest' = Remember("store_email", email.message_id, email, out.result)
           /\ IF ~StoreFailureRaised(out.result)
              THEN /\ trace' = trace \o <<event>>
                   /\ pc' = "classify"
                   /\ UNCHANGED <<result, new_emails, seen, pos, outcome, outbox, call, loc>>
              ELSE Raised("upsert", <<event>>)
    /\ UNCHANGED job_index
    /\ UNCHANGED other_vars

\* the category after "if confidence < 0.7: category = EmailCategory.OTHER"
GateInclusive(category, confidence) ==
    IF confidence <= CONFIDENCE_THRESHOLD THEN "other" ELSE category

EffectiveCategory(category, confidence) ==
    IF confidence < CONFIDENCE_THRESHOLD THEN "other" ELSE category

\* every category handled by _handle_job_email
AlwaysJobHandler(category) == "job_store"

\* step 5 taken straight after the classification
SendsAtOnce(category) == "send"

\* the first step of the handler of a category
Handler(category) ==
    CASE category = "job" -> "job_store"
      [] category = "candidate" -> "candidate_store"
      [] OTHER -> "other_search"

\* 3. classify_email, the confidence gate and the choice of the handler
ClassifyStep(response) ==
    /\ pc = "classify"
    /\ LET got == classify_email(response)
           event == [op |-> "classify", response |-> response]
       IN  IF got.ok
           THEN LET category == EffectiveCategory(got.value.category, got.value.confidence)
                IN  /\ loc' = [loc EXCEPT !.raw_category = got.value.category,
                                           !.confidence = got.value.confidence,
                                           !.category = category]
                    /\ trace' = trace \o <<event>>
                    /\ pc' = Handler(category)
                    /\ UNCHANGED <<result, new_emails, seen, pos, outcome, outbox, call>>
           ELSE Raised(got.value, <<event>>)
    /\ UNCHANGED store_vars
    /\ UNCHANGED other_vars

\* the candidates of the listing reply, "{i}. name, Skills, Experience"
CandidateLines(matching_candidates) ==
    [k \in 1..Len(matching_candidates) |->
        [n |-> k, name |-> matching_candidates[k].name,
         skills |-> matching_candidates[k].skills,
         experience |-> matching_candidates[k].experience]]

\* the jobs of the listing reply, "{i}. title, Company, Requirements"
JobLines(matching_jobs) ==
    [k \in 1..Len(matching_jobs) |->
        [n |-> k, title |-> matching_jobs[k].title, company |-> matching_jobs[k].company,
         requirements |-> matching_jobs[k].requirements]]

\* response of _handle_job_email
JobReply(matching_candidates) ==
    IF matching_candidates # <<>>
    THEN [kind |-> "candidates", lines |-> CandidateLines(matching_candidates)]
    ELSE [kind |-> "no_candidates", lines |-> <<>>]

\* response of _handle_candidate_email
CandidateReply(matching_jobs) ==
    IF matching_jobs # <<>>
    THEN [kind |-> "jobs", lines |-> JobLines(matching_jobs)]
    ELSE [kind |-> "no_jobs", lines |-> <<>>]

\* _handle_job_email: store_job(job_data)
JobStoreStep(embed_ok, fails) ==
    /\ pc = "job_store"
    /\ LET out == store_job(job_index, JobData(email), embed_ok, fails)
           event == [op |-> "store_job", id |-> email.message_id]
       IN  /\ job_index' = out.index
           /\ latest' = Remember("store_job", email.message_id, JobData(email), out.result)
           /\ IF out.result.ok
              THEN /\ trace' = trace \o <<event>>
                   /\ pc' = "job_find"
                   /\ UNCHANGED <<result, new_emails, seen, pos, outcome, outbox, call, loc>>
              ELSE Raised(out.result.value, <<event>>)
    /\ UNCHANGED index
    /\ UNCHANGED other_vars

\* _handle_job_email: find_matching_candidates(email.content) and the reply
JobFindStep(embed_ok, query_ok) ==
    /\ pc = "job_find"
    /\ LET got == find_matching_candidates(job_index, email.content, FIND_TOP_K,
                                           embed_ok, query_ok)
           event == [op |-> "find_matching_candidates", id |-> email.message_id]
       IN  IF got.ok
           THEN /\ loc' = [loc EXCEPT !.found = got.value, !.reply = JobReply(got.value)]
                /\ trace' = trace \o <<event>>
                /\ pc' = "send"
                /\ UNCHANGED <<result, new_emails, seen, pos, outcome, outbox, call>>
           ELSE Raised(got.value, <<event>>)
    /\ UNCHANGED store_vars
    /\ UNCHANGED other_vars

\* _handle_candidate_email: store_candidate(candidate_data)
CandidateStoreStep(embed_ok, fails) ==
    /\ pc = "candidate_store"
    /\ LET out == store_candidate(job_index, CandidateData(email), embed_ok, fails)
           event == [op |-> "store_candidate", id |-> email.message_id]
       IN  /\ job_index' = out.index
           /\ latest' = Remember("store_candidate", email.message_id, CandidateData(email),
                                 out.result)
           /\ IF out.result.ok
              THEN /\ trace' = trace \o <<event>>
                   /\ pc' = "candidate_find"
                   /\ UNCHANGED <<result, new_emails, seen, pos, outcome, outbox, call, loc>>
              ELSE Raised(out.result.value, <<event>>)
    /\ UNCHANGED index
    /\ UNCHANGED other_vars

\* _handle_candidate_email: find_matching_jobs(email.content) and the reply
CandidateFindStep(embed_ok, query_ok) ==
    /\ pc = "candidate_find"
    /\ LET got == find_matching_jobs(job_index, email.content, FIND_TOP_K, embed_ok, query_ok)
           event == [op |-> "find_matching_jobs", id |-> email.message_id]
       IN  IF got.ok
           THEN /\ loc' = [loc EXCEPT !.found = got.value,
                                      !.reply = CandidateReply(got.value)]
                /\ trace' = trace \o <<event>>
                /\ pc' = "send"
                /\ UNCHANGED <<result, new_emails, seen, pos, outcome, outbox, call>>
           ELSE Raised(got.value, <<event>>)
    /\ UNCHANGED store_vars
    /\ UNCHANGED other_vars

\* _handle_other_email: the two embeddings and weighted_similarity_search
OtherSearchStep(api_ok) ==
    /\ pc = "other_search"
    /\ LET got == weighted_similarity_search(index, Embedding(email.subject),
                                             Embedding(email.content))
           event == [op |-> "weighted_similarity_search", id |-> email.message_id]
       IN  IF api_ok
           THEN /\ loc' = [loc EXCEPT !.found = got.value]
                /\ trace' = trace \o <<event>>
                /\ pc' = "other_analyze"
                /\ UNCHANGED <<result, new_emails, seen, pos, outcome, outbox, call>>
           ELSE Raised("APIError", <<event>>)
    /\ UNCHANGED store_vars
    /\ UNCHANGED other_vars

\* _handle_other_email: analyze_similar_emails(email, similar_emails)
OtherAnalyzeStep(type_response, chat_response) ==
    /\ pc = "other_analyze"
    /\ LET got == analyze_similar_emails(email, loc.found, type_response, chat_response)
           event == [op |-> "analyze_similar_emails", id |-> email.message_id]
       IN  IF got.ok
           THEN /\ loc' = [loc EXCEPT !.reply = got.value]
                /\ trace' = trace \o <<event>>
                /\ pc' = "send"
                /\ UNCHANGED <<result, new_emails, seen, pos, outcome, outbox, call>>
           ELSE Raised(got.value, <<event>>)
    /\ UNCHANGED store_vars
    /\ UNCHANGED other_vars

\* the message send_reply builds
ReplyMessage(original_email, reply_content) ==
    [to |-> original_email.sender, subject |-> <<"Re: ">> \o original_email.subject,
     in_reply_to |-> original_email.message_id, body |-> reply_content]

\* a send_reply that lets the failure of smtp.send_message out
SendFailureLetOut(delivered) == ~delivered

\* send_reply, "try: self.smtp.send_message(msg) except Exception as e:
\* print(...)": no failure of the transport leaves send_reply
SendFailureRaised(delivered) == FALSE

\* 5. send_reply: MIMEText(reply_content) raises on None (no content); a failure of
\* smtp.send_message is printed and swallowed
SendStep(delivered) ==
    /\ pc = "send"
    /\ LET event == [op |-> "send_reply", id |-> email.message_id]
       IN  IF loc.reply = NoContent
           THEN Raised("AttributeError", <<event>>)
           ELSE IF SendFailureRaised(delivered)
           THEN Raised("SMTPException", <<event>>)
           ELSE /\ outbox' = IF delivered
                             THEN Append(outbox, ReplyMessage(email, loc.reply))
                             ELSE outbox
                /\ outcome' = [outcome EXCEPT ![pos] = [status |-> "processed", error |-> ""]]
                /\ trace' = trace \o <<event>>
                /\ pc' = "loop"
                /\ UNCHANGED <<result, new_emails, seen, pos, call, loc>>
    /\ UNCHANGED store_vars
    /\ UNCHANGED other_vars

Next ==
    \/ \E batch \in Batches, fetch_ok \in BOOLEAN : ProcessNewEmails(batch, fetch_ok)
    \/ NextEmail
    \/ \E embed_ok \in BOOLEAN : EmbedStep(embed_ok)
    \/ \E fails \in 0..max_retries : StoreStep(fails)
    \/ \E response \in ClassifierResponses : ClassifyStep(response)
    \/ \E f \in StoreFaults : JobStoreStep(f.embed_ok, f.fails)
    \/ \E f \in FindFaults : JobFindStep(f.embed_ok, f.query_ok)
    \/ \E f \in StoreFaults : CandidateStoreStep(f.embed_ok, f.fails)
    \/ \E f \in FindFaults : CandidateFindStep(f.embed_ok, f.query_ok)
    \/ \E api_ok \in BOOLEAN : OtherSearchStep(api_ok)
    \/ \E type_response \in TypeResponses, chat_response \in ChatResponses :
          OtherAnalyzeStep(type_response, chat_response)
    \/ \E delivered \in BOOLEAN : SendStep(delivered)

Spec == Init /\ [][Next]_vars

-----------------------------------------------------------------------------
(* Claims on the orchestrator *)

\* C1: whatever raw (category, confidence) classify_email returns, a
\* confidence below 0.7 sends the message to _handle_other_email, and a
\* confidence of 0.7 or more sends it to the handler of the raw category.
C1_ConfidenceGate ==
    [][(pc = "classify" /\ pc' \notin {"classify", "loop"}) =>
         /\ loc'.confidence < 70 => pc' = "other_search"
         /\ (loc'.confidence >= 70 /\ loc'.raw_category = "job") => pc' = "job_store"
         /\ (loc'.confidence >= 70 /\ loc'.raw_category = "candidate")
               => pc' = "candidate_store"
         /\ (loc'.confidence >= 70 /\ loc'.raw_category = "other") => pc' = "other_search"
      ]_vars

\* a message classified job:0.69 in the OTHER handler, after one classified
\* job:0.7 was processed by the JOB handler
C1_Witness ==
    /\ pc = "other_search"
    /\ loc.raw_category = "job"
    /\ loc.confidence = 69
    /\ pos = 2
    /\ outcome[1].status = "processed"
    /\ \E m \in 1..Len(outbox) :
          /\ outbox[m].in_reply_to = new_emails[1].message_id
          /\ outbox[m].body.kind \in {"candidates", "no_candidates"}

ConfidentJob == loc.raw_category = "job" /\ loc.confidence >= 70
ConfidentCandidate == loc.raw_category = "candidate" /\ loc.confidence >= 70

\* the matches of namespace ns for the content of the current message, best
\* first
Returned(ns) == Query(job_index, ns, Embedding(email.content), FIND_TOP_K)

Descending(matches) ==
    \A i, j \in 1..Len(matches) : i < j => ScoreGE(matches[i].score, matches[j].score)

OpsOf(events) == [k \in 1..Len(events) |-> events[k].op]

\* C8: for a message classified JOB with confidence >= 0.7 the record
\* job_<message_id> is in namespace "jobs" before namespace "candidates" is
\* queried, at most 3 matches are asked for, and the reply lists them in the
\* order returned, best first; symmetrically for a CANDIDATE message with
\* candidate_<message_id>, "candidates" and "jobs".
C8_StoreThenMatch ==
    /\ (pc = "job_find" /\ ConfidentJob) =>
          /\ RecordId("job_", email.message_id) \in Ids(job_index, "jobs")
          /\ job_index["jobs"][RecordId("job_", email.message_id)].metadata
                = JobMetadata(JobData(email))
          /\ OpsOf(trace) = <<"embed", "upsert", "classify", "store_job">>
    /\ (pc = "send" /\ ConfidentJob) =>
          /\ OpsOf(trace) = <<"embed", "upsert", "classify", "store_job",
                              "find_matching_candidates">>
          /\ Len(loc.found) <= 3
          /\ loc.found = Metadatas(Returned("candidates"))
          /\ Descending(Returned("candidates"))
          /\ Len(loc.reply.lines) = Len(loc.found)
          /\ \A k \in 1..Len(loc.found) :
                /\ loc.reply.lines[k].n = k
                /\ loc.reply.lines[k].name = loc.found[k].name
                /\ loc.reply.lines[k].skills = loc.found[k].skills
    /\ (pc = "candidate_find" /\ ConfidentCandidate) =>
          /\ RecordId("candidate_", email.message_id) \in Ids(job_index, "candidates")
          /\ job_index["candidates"][RecordId("candidate_", email.message_id)].metadata
                = CandidateMetadata(CandidateData(email))
          /\ OpsOf(trace) = <<"embed", "upsert", "classify", "store_candidate">>
    /\ (pc = "send" /\ ConfidentCandidate) =>
          /\ OpsOf(trace) = <<"embed", "upsert", "classify", "store_candidate",
                              "find_matching_jobs">>
          /\ Len(loc.found) <= 3
          /\ loc.found = Metadatas(Returned("jobs"))
          /\ Descending(Returned("jobs"))
          /\ Len(loc.reply.lines) = Len(loc.found)
          /\ \A k \in 1..Len(loc.found) :
                /\ loc.reply.lines[k].n = k
                /\ loc.reply.lines[k].title = loc.found[k].title

\* a job message about to be answered with 3 candidates out of more than 3
\* stored ones, of different scores
C8_Witness ==
    /\ pc = "send"
    /\ ConfidentJob
    /\ Cardinality(Ids(job_index, "candidates")) > 3
    /\ Len(loc.reply.lines) = 3
    /\ ~ScoreGE(Returned("candidates")[3].score, Returned("candidates")[1].score)

\* C9: once the batch is fetched, a failure of any step on a message does
\* not abort the batch: the loop goes on with the next message, the batch
\* is not changed, and process_new_emails returns normally, after every
\* message of the batch was processed or failed.
C9_FailureIsolation ==
    [][(pc \notin {"idle", "raised"}) =>
         /\ pc' # "raised"
         /\ new_emails' = new_emails
         /\ pos' \in {pos, pos + 1}
         /\ (pc # "loop" /\ outcome'[pos].status = "failed") => (pc' = "loop" /\ pos' = pos)
         /\ (pc = "loop" /\ pos < Len(new_emails)) => (pc' = "embed" /\ pos' = pos + 1)
         /\ pc' = "idle" =>
               /\ pos = Len(new_emails)
               /\ result' = Return(None)
               /\ \A i \in 1..Len(new_emails) :
                     outcome'[i].status \in {"processed", "failed"}
      ]_vars

\* process_new_emails returned normally from a batch whose first message
\* failed and whose second message was processed
C9_Witness ==
    /\ pc = "idle"
    /\ result = Return(None)
    /\ Len(new_emails) = 2
    /\ outcome[1].status = "failed"
    /\ outcome[2].status = "processed"

\* the oracle's output is not of the form category:confidence
Unparseable(response) == response # ApiError /\ ~classify_email(response).ok

JustClassified == trace # <<>> /\ trace[Len(trace)].op = "classify"

\* C10: a message whose classification output cannot be parsed is handled
\* by the OTHER branch (and then answered) instead of failing.
C10_UnparseableMeansOther ==
    (JustClassified /\ Unparseable(trace[Len(trace)].response)) => pc = "other_search"

\* the numerals an oracle writes as confidence
Numerals == {"0.5", "0.69", "0.7", "0.95", "1.5"}

\* the oracle's output, lower-cased and trimmed, reads category:confidence
\* with a known category and a numeral
WellFormed(response) ==
    /\ response # ApiError
    /\ LET text == Strip(LowerAll(response))
       IN  /\ Len(text) >= 3
           /\ text[1] \in {"job", "candidate", "other"}
           /\ text[2] = ":"
           /\ Strip(SubSeq(text, 3, Len(text))) \in {<<n>> : n \in Numerals}

\* C11: classify_email returns a (category, confidence) only for an output
\* of the form category:confidence, and then the confidence lies in [0,1];
\* for every other output it fails and returns no category.
C11_NeverGuesses ==
    JustClassified =>
        IF WellFormed(trace[Len(trace)].response)
        THEN /\ pc \in {"job_store", "candidate_store", "other_search"}
             /\ loc.raw_category = Strip(LowerAll(trace[Len(trace)].response))[1]
             /\ loc.confidence \in 0..100
        ELSE /\ pc = "loop"
             /\ outcome[pos].status = "failed"
             /\ loc.raw_category = ""

-----------------------------------------------------------------------------
(* Claims on the retry of writes *)

StoreCalled == call.op \in StoreMethods

\* C18: a call of store_email, store_job or store_candidate makes at most 3
\* upsert attempts, sleeping the same retry_delay after each failed attempt
\* but the last; it returns at the first attempt that succeeds, and after 3
\* failed attempts it raises the error of the upsert.
C18_BoundedRetry ==
    StoreCalled =>
        /\ call.attempts <= 3
        /\ \A k \in 1..Len(call.delays) : call.delays[k] = 2
        /\ result.ok =>
              /\ call.fails < 3
              /\ call.attempts = call.fails + 1
              /\ Len(call.delays) = call.fails
        /\ (~result.ok /\ call.attempts > 0) =>
              /\ call.fails >= 3
              /\ call.attempts = 3
              /\ Len(call.delays) = 2
              /\ result = Raise("upsert")
        /\ call.fails >= 3 => ~result.ok

\* a write that gave up after 3 failed attempts, in a store that holds the
\* records of earlier writes
C18_Witness ==
    /\ call.op = "store_job"
    /\ ~result.ok
    /\ call.attempts = 3
    /\ call.fails = 3
    /\ Len(call.delays) = 2
    /\ DOMAIN latest["store_job"] # {}
    /\ DOMAIN latest["store_candidate"] # {}

-----------------------------------------------------------------------------
(* _init_index of VectorStore and of JobCandidateStore: one action per     *)
(* call on the Pinecone client.                                            *)

\* longest a describe_index call of the readiness loop takes, in seconds
MaxCallSeconds == 1

\* "timeout = 60" and "time.sleep(1)" of the readiness loop
timeout == 60
poll_interval == 1

\* CONFIG["pinecone"].INDEX_NAME and the index of JobCandidateStore
IndexNames == {"email-embeddings", "job-candidates"}

\* what describe_index().status reports, or the call raising
PollStatuses == {"ready", "not_ready", "error"}

InitInitIndex ==
    /\ index = NoStore
    /\ job_index = NoStore
    /\ latest = NothingStored
    /\ OrchIdle
    /\ index_name \in IndexNames
    /\ call = [op |-> "_init_index"]
    /\ result = NoResult
    /\ ipc = "describe"
    /\ attempt = 0
    /\ clock = 0
    /\ observed = "none"
    /\ calls = NoCalls
    /\ handle = NoHandle
    /\ AppIdle

Called(method) == [calls EXCEPT ![method] = calls[method] + 1]

\* the describe loop creating the index at its first failed attempt
AnyAttempt(n) == TRUE

\* "if attempt == max_retries - 1"
LastAttempt(n) == n = max_retries - 1

\* "for attempt in range(max_retries)": describe_index succeeds (break) or
\* fails (create at the last attempt, else sleep and continue)
Describe(found) ==
    /\ ipc = "describe"
    /\ calls' = Called("describe_index")
    /\ IF found
       THEN /\ observed' = "exists"
            /\ ipc' = "connect"
            /\ UNCHANGED attempt
       ELSE /\ observed' = "missing"
            /\ IF LastAttempt(attempt)
               THEN ipc' = "create" /\ UNCHANGED attempt
               ELSE ipc' = "describe" /\ attempt' = attempt + 1
    /\ UNCHANGED <<store_vars, orch_vars, app_vars, call, result, index_name, clock, handle>>

\* create_index; start_time = time.time()
CreateIndex(created) ==
    /\ ipc = "create"
    /\ calls' = Called("create_index")
    /\ IF created
       THEN ipc' = "poll" /\ UNCHANGED result
       ELSE ipc' = "done" /\ result' = Raise("create_index")
    /\ clock' = 0
    /\ UNCHANGED <<store_vars, orch_vars, app_vars, call, index_name, attempt, observed, handle>>

\* the readiness loop running into its else clause without the raise
PollLoopFallsThrough == [ipc |-> "connect", result |-> NoResult]

\* the else clause of the readiness loop: raise TimeoutError, logged and
\* re-raised by "except Exception as create_error"
PollLoopExit == [ipc |-> "done", result |-> Raise("TimeoutError")]

\* "while time.time() - start_time < timeout"
KeepPolling(elapsed) == elapsed < timeout

\* the readiness loop never breaking
ReadyIgnored(status) == FALSE

\* "if status.ready"
IsReady(status) == status = "ready"

\* where the describe loop goes on after the except clause that created
\* the index
AfterCreate(n) == IF n + 1 < max_retries THEN "describe" ELSE "connect"

\* one turn of the readiness loop: the loop condition, describe_index
\* taking `seconds`, break when ready, else time.sleep(1)
Poll(status, seconds) ==
    /\ ipc = "poll"
    /\ IF ~KeepPolling(clock)
       THEN /\ ipc' = PollLoopExit.ipc
            /\ result' = PollLoopExit.result
            /\ UNCHANGED <<calls, observed, clock, attempt>>
       ELSE /\ calls' = Called("poll")
            /\ observed' = status
            /\ UNCHANGED result
            /\ IF IsReady(status)
               THEN /\ ipc' = AfterCreate(attempt)
                    /\ attempt' = IF AfterCreate(attempt) = "describe"
                                  THEN attempt + 1 ELSE attempt
                    /\ clock' = clock + seconds
               ELSE /\ ipc' = "poll"
                    /\ clock' = clock + seconds + poll_interval
                    /\ UNCHANGED attempt
    /\ UNCHANGED <<store_vars, orch_vars, app_vars, call, index_name, handle>>

\* pinecone.Index(index_name) and the liveness check describe_index_stats
Connect(alive) ==
    /\ ipc = "connect"
    /\ calls' = [calls EXCEPT !["Index"] = calls["Index"] + 1,
                              !["describe_index_stats"] = calls["describe_index_stats"] + 1]
    /\ ipc' = "done"
    /\ IF alive
       THEN handle' = index_name /\ result' = Return(index_name)
       ELSE handle' = NoHandle /\ result' = Raise("describe_index_stats")
    /\ UNCHANGED <<store_vars, orch_vars, app_vars, call, index_name, attempt, clock, observed>>

NextInitIndex ==
    \/ \E found \in BOOLEAN : Describe(found)
    \/ \E created \in BOOLEAN : CreateIndex(created)
    \/ \E status \in PollStatuses, seconds \in 0..MaxCallSeconds : Poll(status, seconds)
    \/ \E alive \in BOOLEAN : Connect(alive)

SpecInitIndex == InitInitIndex /\ [][NextInitIndex]_vars

\* every call on the client returns or raises, and time.sleep returns
FairInitIndex == SpecInitIndex /\ WF_vars(NextInitIndex)

-----------------------------------------------------------------------------
(* Claims on _init_index *)

Polled == ipc = "poll" /\ calls'["poll"] = calls["poll"] + 1

NeverReady == calls["create_index"] = 1 /\ observed # "ready"

C17_ExistingIndexUntouched ==
    /\ calls["describe_index"] <= 3
    /\ calls["create_index"] <= 1
    /\ calls["create_index"] = 1 => calls["describe_index"] = 3
    /\ calls["poll"] > 0 => calls["create_index"] = 1
    /\ observed = "exists" =>
          /\ calls["create_index"] = 0
          /\ calls["poll"] = 0
          /\ ipc \in {"connect", "done"}
          /\ calls["Index"] = calls["describe_index_stats"]
          /\ calls["Index"] = IF ipc = "done" THEN 1 ELSE 0

\* the index was found at the third describe_index and connected
C17_Witness ==
    /\ ipc = "done"
    /\ observed = "exists"
    /\ calls["describe_index"] = 3
    /\ calls["create_index"] = 0
    /\ handle = index_name

-----------------------------------------------------------------------------
(* The service app.py and the stand-alone run_bot.py.  The coroutines of   *)
(* the service run on one event loop: one action per stretch of code       *)
(* between two awaits; initialize_system and the background runs of        *)
(* process_new_emails run in threads of their own.                         *)

\* the state of the bot itself, which these actions leave alone
outside_app == <<store_vars, orch_vars, init_vars, call, result>>

\* every required variable set, or one of them missing
Environments == {RequiredVars} \cup {RequiredVars \ {v} : v \in RequiredVars}

InitService ==
    /\ index = NoStore
    /\ job_index = NoStore
    /\ latest = NothingStored
    /\ call = NoCall
    /\ result = NoResult
    /\ OrchIdle
    /\ InitIndexIdle
    /\ env \in Environments
    /\ main \in {"serving", "run_bot"}
    /\ initialization_status = NotStarted
    /\ lock = NoTask
    /\ tasks = [t \in Triggers |-> "none"]
    /\ workers = [t \in Triggers |-> "none"]
    /\ vector_stores = NoStores
    /\ bot = NoBot
    /\ polling = [pc |-> "none", cancel |-> FALSE]
    /\ runs = [r \in Runners |-> IdleRun]
    /\ network = {}

\* the event loop is running and not inside the synchronous
\* bot.process_new_emails() of poll_emails
LoopFree == main \in {"serving", "stopping"} /\ runs[PollRun].pc = "idle"

\* a status update that drops the error message
DropsError(state, error, step) == [state |-> state, error |-> "", step |-> step]

\* update_init_status
update_init_status(state, error, step) == [state |-> state, error |-> error, step |-> step]

\* startup_event: "if not initialization_task or initialization_task.done()",
\* create_task(initialize_bot_async())
StartupEvent(t) ==
    /\ main = "serving"
    /\ LoopFree
    /\ \A u \in Triggers : tasks[u] \in {"none", "done", "failed"}
    /\ tasks[t] = "none"
    /\ tasks' = [tasks EXCEPT ![t] = "created"]
    /\ UNCHANGED <<outside_app, env, main, initialization_status, lock, workers,
                   vector_stores, bot, polling, runs, network>>

\* initialize_bot_async() is called by another caller while an earlier call
\* is in flight
CallInitializeBotAsync(t) ==
    /\ main = "serving"
    /\ LoopFree
    /\ \E u \in Triggers : tasks[u] \notin {"none", "done", "failed"}
    /\ tasks[t] = "none"
    /\ tasks' = [tasks EXCEPT ![t] = "queued"]
    /\ UNCHANGED <<outside_app, env, main, initialization_status, lock, workers,
                   vector_stores, bot, polling, runs, network>>

\* the pair initialize_system returns to the call t
Stores(t) == <<[store |-> "VectorStore", by |-> t], [store |-> "JobCandidateStore", by |-> t]>>

\* MailingBot(): vector_store and job_store are None
MailingBot == [exists |-> TRUE, vector_store |-> Unattached, job_store |-> Unattached]

\* a bot left as MailingBot() built it
WithoutStores(b, stores) == b

\* "bot.vector_store = vector_stores[0]; bot.job_store = vector_stores[1]"
WithStores(b, stores) == [b EXCEPT !.vector_store = stores[1], !.job_store = stores[2]]

\* "if not self.vector_store or not self.job_store" of process_new_emails
StoresMissing(b) == b.vector_store = Unattached \/ b.job_store = Unattached

\* "if not bot: bot = MailingBot() ..." up to the end of initialize_bot_async,
\* which has no await: the bot is built (EmailHandler connects to the mail
\* servers), the status completed, the polling task created, the lock released
BuildBot(t, built, stores) ==
    /\ lock' = NoTask
    /\ network' = IF bot.exists THEN network ELSE network \cup {"imap", "smtp"}
    /\ IF bot.exists \/ built
       THEN /\ bot' = IF bot.exists THEN bot ELSE WithStores(MailingBot, stores)
            /\ initialization_status' =
                   update_init_status("completed", "", "initialization complete")
            /\ polling' = IF polling.pc \in {"none", "ended"}
                          THEN [pc |-> "scheduled", cancel |-> FALSE]
                          ELSE polling
            /\ tasks' = [tasks EXCEPT ![t] = "done"]
       ELSE /\ bot' = bot
            /\ initialization_status' =
                   update_init_status("failed", "Failed to initialize bot", "")
            /\ tasks' = [tasks EXCEPT ![t] = "failed"]
            /\ UNCHANGED polling

\* initialize_bot_async from the acquisition of initialization_lock to its
\* first await (wait_for) or its end
TaskEnter(t, built) ==
    /\ LoopFree
    /\ \/ tasks[t] = "created"
       \/ tasks[t] = "queued" /\ \A u \in Triggers : tasks[u] # "created"
    /\ lock = NoTask
    /\ IF initialization_status.state \in {"completed", "in_progress"}
       THEN /\ tasks' = [tasks EXCEPT ![t] = "done"]
            /\ UNCHANGED <<initialization_status, lock, workers, vector_stores, bot,
                           polling, network>>
       ELSE IF env # RequiredVars
       THEN /\ initialization_status' =
                   update_init_status("failed", "Missing required environment variables", "")
            /\ tasks' = [tasks EXCEPT ![t] = "failed"]
            /\ UNCHANGED <<lock, workers, vector_stores, bot, polling, network>>
       ELSE IF vector_stores = NoStores
       THEN /\ initialization_status' =
                   update_init_status("in_progress", "", "initializing vector stores")
            /\ lock' = t
            /\ tasks' = [tasks EXCEPT ![t] = "await_stores"]
            /\ workers' = [workers EXCEPT ![t] = "creating"]
            /\ network' = network \cup {"pinecone"}
            /\ UNCHANGED <<vector_stores, bot, polling>>
       ELSE /\ BuildBot(t, built, vector_stores)
            /\ UNCHANGED <<workers, vector_stores>>
    /\ UNCHANGED <<outside_app, env, main, runs>>

\* the phases of initialize_system: "creating", from its start to the
\* VectorStore() of the email index (delete_index, sleep, _init_index);
\* "creating_jobs", entered by pc.delete_index("job-candidates"), up to
\* JobCandidateStore(); "loading", EmailHandler() and the load of the inbox
WorkerPhases == {"creating", "creating_jobs", "loading"}

WorkerNext(phase) ==
    CASE phase = "creating" -> "creating_jobs"
      [] phase = "creating_jobs" -> "loading"
      [] OTHER -> "returned"

\* the thread of initialize_system ends a phase: it goes on to the next one
\* or raises
WorkerStep(t, ok) ==
    /\ workers[t] \in WorkerPhases
    /\ workers' = [workers EXCEPT ![t] = IF ok THEN WorkerNext(workers[t]) ELSE "raised"]
    /\ network' = IF ok /\ workers[t] = "creating_jobs"
                  THEN network \cup {"imap", "smtp", "openai"}
                  ELSE network
    /\ UNCHANGED <<outside_app, env, main, initialization_status, lock, tasks,
                   vector_stores, bot, polling, runs>>

\* wait_for returns the stores or raises what initialize_system raised
StoresReturned(t, built) ==
    /\ LoopFree
    /\ tasks[t] = "await_stores"
    /\ workers[t] \in {"returned", "raised"}
    /\ IF workers[t] = "returned"
       THEN /\ vector_stores' = Stores(t)
            /\ BuildBot(t, built, Stores(t))
       ELSE /\ initialization_status' = update_init_status("failed", "initialize_system", "")
            /\ tasks' = [tasks EXCEPT ![t] = "failed"]
            /\ lock' = NoTask
            /\ UNCHANGED <<vector_stores, bot, polling, network>>
    /\ UNCHANGED <<outside_app, env, main, workers, runs>>

\* wait_for times out after 60 seconds: the future is cancelled, the thread
\* of the executor runs on
WaitForTimeout(t) ==
    /\ LoopFree
    /\ tasks[t] = "await_stores"
    /\ workers[t] \in WorkerPhases
    /\ initialization_status' =
           update_init_status("failed", "Vector store initialization timed out", "")
    /\ tasks' = [tasks EXCEPT ![t] = "failed"]
    /\ lock' = NoTask
    /\ UNCHANGED <<outside_app, env, main, workers, vector_stores, bot, polling, runs,
                   network>>

\* an except clause that catches every exception
CatchesAll(exception) == TRUE

\* an except clause that catches nothing
CatchesNothing(exception) == FALSE

\* "except Exception as e": asyncio.CancelledError is a BaseException
ExceptException(exception) == exception # "CancelledError"

\* a run of process_new_emails that was just called
CalledRun == [pc |-> "fetch", left |-> 0, done |-> 0]

\* poll_emails at "while True", started or woken from asyncio.sleep(60):
\* with a completed initialization it calls bot.process_new_emails()
PollWake ==
    /\ LoopFree
    /\ polling.pc \in {"scheduled", "sleep_try", "sleep_except"}
    /\ ~polling.cancel
    /\ IF bot.exists /\ initialization_status.state = "completed"
       THEN /\ network' = network \cup {"imap"}
            /\ runs' = [runs EXCEPT ![PollRun] = CalledRun]
            /\ polling' = [polling EXCEPT !.pc = "processing"]
       ELSE /\ polling' = [polling EXCEPT !.pc = "sleep_try"]
            /\ UNCHANGED <<runs, network>>
    /\ UNCHANGED <<outside_app, env, main, initialization_status, lock, tasks, workers,
                   vector_stores, bot>>

\* the body POST /process-emails answers with
Answer(status, message) == [status |-> status, message |-> message]

\* a handler that answers success whatever the state
AlwaysSuccess(state, has_bot) == Answer("success", "Processing new emails in background")

\* process_emails: the checks of the initialization and of the bot
ProcessEmailsResponse(state, has_bot) ==
    IF state = "failed" THEN Answer("error", "Bot initialization failed")
    ELSE IF state # "completed" THEN Answer("error", "Bot initialization not complete")
    ELSE IF ~has_bot THEN Answer("error", "Bot not initialized")
    ELSE Answer("success", "Processing new emails in background")

\* POST /process-emails: with a completed initialization the run is handed
\* to BackgroundTasks, which runs the lambda in a thread of the pool;
\* otherwise the request is answered with an error
ProcessEmailsRequest(r) ==
    /\ main = "serving"
    /\ LoopFree
    /\ r # PollRun
    /\ runs[r].pc = "idle"
    /\ call' = [op |-> "process_emails"]
    /\ result' = Return(ProcessEmailsResponse(initialization_status.state, bot.exists))
    /\ IF result'.value.status = "success"
       THEN /\ runs' = [runs EXCEPT ![r] = CalledRun]
            /\ network' = network \cup {"imap"}
       ELSE UNCHANGED <<runs, network>>
    /\ UNCHANGED <<store_vars, orch_vars, init_vars, env, main, initialization_status, lock,
                   tasks, workers, vector_stores, bot, polling>>

\* process_new_emails: without both stores it raises RuntimeError; else
\* fetch_new_emails returns n messages or raises; what is raised in
\* poll_emails is caught there, followed by asyncio.sleep(60)
RunFetch(r, n, fetched) ==
    /\ runs[r].pc = "fetch"
    /\ IF StoresMissing(bot)
       THEN /\ runs' = [runs EXCEPT ![r] = IdleRun]
            /\ polling' = IF r # PollRun THEN polling
                          ELSE IF ExceptException("RuntimeError")
                          THEN [polling EXCEPT !.pc = "sleep_except"]
                          ELSE [polling EXCEPT !.pc = "ended"]
            /\ call' = [op |-> "process_new_emails"]
            /\ result' = Raise("RuntimeError")
       ELSE IF fetched
       THEN /\ runs' = [runs EXCEPT ![r] = [pc |-> "loop", left |-> n, done |-> 0]]
            /\ UNCHANGED <<polling, call, result>>
       ELSE /\ runs' = [runs EXCEPT ![r] = IdleRun]
            /\ polling' = IF r # PollRun THEN polling
                          ELSE IF ExceptException("IMAP4.error")
                          THEN [polling EXCEPT !.pc = "sleep_except"]
                          ELSE [polling EXCEPT !.pc = "ended"]
            /\ UNCHANGED <<call, result>>
    /\ UNCHANGED <<store_vars, orch_vars, init_vars, env, main, initialization_status, lock,
                   tasks, workers, vector_stores, bot, network>>

\* process_new_emails: _process_single_email of the next message (stored,
\* classified, answered, or failed and logged)
RunMessage(r) ==
    /\ runs[r].pc = "loop"
    /\ runs[r].left > 0
    /\ runs' = [runs EXCEPT ![r].left = runs[r].left - 1, ![r].done = runs[r].done + 1]
    /\ network' = network \cup {"openai", "pinecone", "smtp"}
    /\ UNCHANGED <<outside_app, env, main, initialization_status, lock, tasks, workers,
                   vector_stores, bot, polling>>

\* process_new_emails returns; poll_emails goes to asyncio.sleep(60)
RunReturn(r) ==
    /\ runs[r].pc = "loop"
    /\ runs[r].left = 0
    /\ runs' = [runs EXCEPT ![r] = IdleRun]
    /\ polling' = IF r = PollRun THEN [polling EXCEPT !.pc = "sleep_try"] ELSE polling
    /\ UNCHANGED <<outside_app, env, main, initialization_status, lock, tasks, workers,
                   vector_stores, bot, network>>

\* shutdown_event: "if polling_task: polling_task.cancel()", await it
ShutdownEvent ==
    /\ main = "serving"
    /\ LoopFree
    /\ main' = "stopping"
    /\ polling' = IF polling.pc \in {"none", "ended"}
                  THEN polling
                  ELSE [polling EXCEPT !.cancel = TRUE]
    /\ UNCHANGED <<outside_app, env, initialization_status, lock, tasks, workers,
                   vector_stores, bot, runs, network>>

\* the cancellation reaches poll_emails at the await it is suspended in
PollCancelled ==
    /\ LoopFree
    /\ polling.cancel
    /\ polling.pc \in {"scheduled", "sleep_try", "sleep_except"}
    /\ polling' = IF polling.pc = "sleep_try" /\ ExceptException("CancelledError")
                  THEN [pc |-> "sleep_except", cancel |-> FALSE]
                  ELSE [pc |-> "ended", cancel |-> TRUE]
    /\ UNCHANGED <<outside_app, env, main, initialization_status, lock, tasks, workers,
                   vector_stores, bot, runs, network>>

\* the server stops its event loop after shutdown_event: the calls of
\* initialize_bot_async still in flight are cancelled at their await;
\* CancelledError passes "except Exception", the lock is released by
\* "async with"; the thread of initialize_system runs on
LoopTeardown ==
    /\ main = "stopping"
    /\ LoopFree
    /\ polling.pc \in {"none", "ended"}
    /\ main' = "stopped"
    /\ tasks' = [t \in Triggers |->
                    IF tasks[t] \in {"created", "queued", "await_stores"}
                    THEN "cancelled" ELSE tasks[t]]
    /\ lock' = NoTask
    /\ initialization_status' =
           IF lock # NoTask /\ ExceptException("CancelledError")
           THEN update_init_status("failed", "CancelledError", "")
           ELSE initialization_status
    /\ UNCHANGED <<outside_app, env, workers, vector_stores, bot, polling, runs, network>>

\* run_bot.main up to "bot = MailingBot()": the configuration is copied from
\* the environment unchecked, EmailHandler() connects and logs in to the
\* mail servers, EmailClassifier() builds the OpenAI client
MainBuildBot(connected) ==
    /\ main = "run_bot"
    /\ network' = network \cup {"imap", "smtp"}
    /\ main' = IF connected /\ {"EMAIL_ADDRESS", "EMAIL_PASSWORD", "OPENAI_API_KEY"} \subseteq env
               THEN "run_bot_loop"
               ELSE "run_bot_crashed"
    /\ UNCHANGED <<outside_app, env, initialization_status, lock, tasks, workers,
                   vector_stores, bot, polling, runs>>

\* run_bot.main, "while True: bot.process_new_emails()": the bot has no
\* stores, the RuntimeError ends the loop in "except Exception"
MainLoop ==
    /\ main = "run_bot_loop"
    /\ main' = "run_bot_exited"
    /\ UNCHANGED <<outside_app, env, initialization_status, lock, tasks, workers,
                   vector_stores, bot, polling, runs, network>>

NextService ==
    \/ \E t \in Triggers : StartupEvent(t)
    \/ \E t \in Triggers : CallInitializeBotAsync(t)
    \/ \E t \in Triggers, built \in BOOLEAN : TaskEnter(t, built)
    \/ \E t \in Triggers, ok \in BOOLEAN : WorkerStep(t, ok)
    \/ \E t \in Triggers, built \in BOOLEAN : StoresReturned(t, built)
    \/ \E t \in Triggers : WaitForTimeout(t)
    \/ PollWake
    \/ \E r \in Runners : ProcessEmailsRequest(r)
    \/ \E r \in Runners, n \in 0..MaxBatch, fetched \in BOOLEAN : RunFetch(r, n, fetched)
    \/ \E r \in Runners : RunMessage(r)
    \/ \E r \in Runners : RunReturn(r)
    \/ ShutdownEvent
    \/ PollCancelled
    \/ LoopTeardown
    \/ \E connected \in BOOLEAN : MainBuildBot(connected)
    \/ MainLoop

SpecService == InitService /\ [][NextService]_vars

-----------------------------------------------------------------------------
(* Claims on the service *)

\* the calls whose initialize_system is in its index-creation sequence
Creating == {t \in Triggers : workers[t] \in {"creating", "creating_jobs"}}

\* C12: under any interleaving of calls of initialize_bot_async, also one
\* made after an earlier call failed by the time-out of wait_for, at most
\* one index-creation sequence is running.
C12_OneCreationAtATime == Cardinality(Creating) <= 1

\* C13: a call of initialize_bot_async made while an earlier one is in
\* flight ends without starting initialize_system, building the bot or
\* changing the status, whether the earlier call completed or failed.
C13_SecondTriggerNoOp ==
    [][\A t \in Triggers :
          (tasks[t] = "queued" /\ tasks'[t] # "queued") =>
              /\ initialization_status' = initialization_status
              /\ workers' = workers
              /\ bot' = bot
              /\ network' = network
      ]_vars

\* C14: with a required variable missing, every start-up path fails before
\* any network call.
C14_FailFastBeforeNetwork ==
    env # RequiredVars =>
        /\ network = {}
        /\ main \notin {"run_bot_loop", "run_bot_exited"}
        /\ initialization_status.state \in {"not_started", "failed"}

Running == {r \in Runners : runs[r].pc # "idle"}

\* C19: at most one run of process_new_emails is in progress: the cycle of
\* poll_emails and the background run of POST /process-emails never overlap.
C19_RunsNeverOverlap == Cardinality(Running) <= 1

\* shutdown_event awaits the cancelled task, so the event loop delivers the
\* cancellation to poll_emails
FairService == SpecService /\ WF_vars(PollCancelled)

\* C20: shutdown_event cancels the polling task while no poll cycle is in
\* progress; once cancelled, poll_emails starts no further
\* process_new_emails, its only step is to end, and it does end.
C20_CleanCancellation ==
    /\ polling.cancel ~> (polling.pc = "ended")
    /\ [][/\ (main = "serving" /\ main' = "stopping") =>
               /\ runs[PollRun].pc = "idle"
               /\ polling.pc \in {"scheduled", "sleep_try", "sleep_except"} => polling'.cancel
          /\ polling.cancel =>
               /\ runs[PollRun].pc = "idle"
               /\ runs'[PollRun] = runs[PollRun]
               /\ polling' # polling => polling' = [pc |-> "ended", cancel |-> TRUE]
            ]_vars

\* the polling task ended by the cancellation, after it had run cycles, while
\* a background run is still at work
C20_Witness ==
    /\ main = "stopping"
    /\ polling = [pc |-> "ended", cancel |-> TRUE]
    /\ "smtp" \in network
    /\ \E r \in Runners : r # PollRun /\ runs[r].pc = "loop" /\ runs[r].done > 0

-----------------------------------------------------------------------------
(* Claims on the steps of one message *)

\* the calls that produce the reply of a message
GenerationOps == {"find_matching_candidates", "find_matching_jobs", "analyze_similar_emails"}

\* the replies sent in this run to the message of id x
RepliesTo(x) == {m \in 1..Len(outbox) : outbox[m].in_reply_to = x}

\* C21: within one message the reply is generated only after classify_email
\* returned, send_reply is called only after the handler returned the reply
\* and as the last step, at most once per message per run, and a message
\* that failed has no reply sent.
C21_StepOrdering ==
    /\ \A k \in 1..Len(trace) :
          /\ trace[k].op \in GenerationOps \cup {"store_job", "store_candidate",
                                                 "weighted_similarity_search"}
                => \E j \in 1..(k - 1) : trace[j].op = "classify"
          /\ trace[k].op = "send_reply" =>
                /\ k = Len(trace)
                /\ k > 1
                /\ trace[k - 1].op \in GenerationOps
                /\ loc.reply # <<>>
    /\ pc = "send" =>
          /\ trace # <<>>
          /\ trace[Len(trace)].op \in GenerationOps
          /\ loc.reply # <<>>
          /\ loc.category \in {"job", "candidate", "other"}
    /\ \A i \in 1..Len(new_emails) :
          /\ Cardinality(RepliesTo(new_emails[i].message_id)) <= 1
          /\ outcome[i].status \in {"failed", "pending"}
                => RepliesTo(new_emails[i].message_id) = {}

\* a run in which the first message failed after its classification and the
\* second was answered
C21_Witness ==
    /\ pc = "loop"
    /\ Len(new_emails) = 2
    /\ pos = 2
    /\ outcome[1].status = "failed"
    /\ outcome[1].error # "upsert"
    /\ outcome[2].status = "processed"
    /\ RepliesTo(new_emails[1].message_id) = {}
    /\ Cardinality(RepliesTo(new_emails[2].message_id)) = 1
    /\ OpsOf(trace)[Len(trace)] = "send_reply"

-----------------------------------------------------------------------------
(* The combined embedding, at the three places that compute it, for the   *)
(* weights CONFIG["search"] holds at the call                             *)

\* largest dimension and largest component of the embeddings combined
MaxDim == 2
MaxComponent == 1

\* CONFIG["search"] with weights, in tenths, that sum to 1.0
SearchConfigs ==
    {[SUBJECT_WEIGHT |-> w, CONTENT_WEIGHT |-> (SUBJECT_WEIGHT + CONTENT_WEIGHT) - w] :
        w \in 0..(SUBJECT_WEIGHT + CONTENT_WEIGHT)}

Vectors == UNION {[1..d -> 0..MaxComponent] : d \in 1..MaxDim}

\* the content embedding alone
ContentOnly(search, subject_embedding, content_embedding) ==
    [k \in 1..Len(content_embedding) |->
        content_embedding[k] * (search.SUBJECT_WEIGHT + search.CONTENT_WEIGHT)]

\* combined_embedding of _process_single_email
StoredCombination(search, subject_embedding, content_embedding) ==
    [k \in 1..Min(Len(subject_embedding), Len(content_embedding)) |->
        subject_embedding[k] * search.SUBJECT_WEIGHT
            + content_embedding[k] * search.CONTENT_WEIGHT]

\* combined_embedding of process_email_content
LoadedCombination(search, subject_embedding, content_embedding) ==
    [k \in 1..Min(Len(subject_embedding), Len(content_embedding)) |->
        subject_embedding[k] * search.SUBJECT_WEIGHT
            + content_embedding[k] * search.CONTENT_WEIGHT]

\* combined_embedding of weighted_similarity_search
QueryCombination(search, subject_embedding, content_embedding) ==
    [k \in 1..Min(Len(subject_embedding), Len(content_embedding)) |->
        subject_embedding[k] * search.SUBJECT_WEIGHT
            + content_embedding[k] * search.CONTENT_WEIGHT]

InitCombine ==
    /\ index = NoStore
    /\ job_index = NoStore
    /\ latest = NothingStored
    /\ call = NoCall
    /\ result = NoResult
    /\ OrchIdle
    /\ OthersIdle

CombineCall(op, search, subject_embedding, content_embedding, combined_embedding) ==
    /\ call' = [op |-> op, search |-> search, subject_embedding |-> subject_embedding,
                content_embedding |-> content_embedding]
    /\ result' = Return(combined_embedding)
    /\ UNCHANGED <<store_vars, orch_vars, other_vars>>

\* _process_single_email, step 2
CombineToStore(search, s, c) ==
    CombineCall("_process_single_email", search, s, c, StoredCombination(search, s, c))

\* process_email_content
CombineToLoad(search, s, c) ==
    CombineCall("process_email_content", search, s, c, LoadedCombination(search, s, c))

\* weighted_similarity_search
CombineToQuery(search, s, c) ==
    CombineCall("weighted_similarity_search", search, s, c, QueryCombination(search, s, c))

Combined == call.op \in {"_process_single_email", "process_email_content",
                         "weighted_similarity_search"}

\* the caller goes on with the combined embedding
CombineUsed ==
    /\ Combined
    /\ call' = NoCall
    /\ result' = NoResult
    /\ UNCHANGED <<store_vars, orch_vars, other_vars>>

NextCombine ==
    \/ CombineUsed
    \/ /\ call = NoCall
       /\ \E search \in SearchConfigs, s \in Vectors, c \in Vectors :
             \/ CombineToStore(search, s, c)
             \/ CombineToLoad(search, s, c)
             \/ CombineToQuery(search, s, c)

SpecCombine == InitCombine /\ [][NextCombine]_vars

\* C22: for weights that sum to 1.0 and a subject and a content vector of
\* the same dimension D, the combined embedding has dimension D and its
\* component i is subject_weight * subject[i] + content_weight * content[i]
\* (so a vector combined with itself is that vector); storage and query
\* compute the same combination, which with the weights of config.py is the
\* one the stores of the model are filled and searched with.
C22_CombinedEmbedding ==
    (Combined /\ Len(call.subject_embedding) = Len(call.content_embedding)) =>
        LET s == call.subject_embedding
            c == call.content_embedding
            w == call.search
            combined == result.value
        IN  /\ Len(combined) = Len(s)
            /\ \A i \in 1..Len(s) :
                  combined[i] = w.SUBJECT_WEIGHT * s[i] + w.CONTENT_WEIGHT * c[i]
            /\ s = c => \A i \in 1..Len(s) :
                  combined[i] = (SUBJECT_WEIGHT + CONTENT_WEIGHT) * s[i]
            /\ combined = StoredCombination(w, s, c)
            /\ combined = LoadedCombination(w, s, c)
            /\ combined = QueryCombination(w, s, c)
            /\ (w.SUBJECT_WEIGHT = SUBJECT_WEIGHT /\ w.CONTENT_WEIGHT = CONTENT_WEIGHT)
                  => combined = Combine(s, c)

\* a query combined two different vectors of the largest dimension with
\* weights other than those of config.py
C22_Witness ==
    /\ call.op = "weighted_similarity_search"
    /\ Len(call.subject_embedding) = MaxDim
    /\ Len(call.content_embedding) = MaxDim
    /\ call.subject_embedding # call.content_embedding
    /\ call.search.SUBJECT_WEIGHT \notin {0, SUBJECT_WEIGHT, SUBJECT_WEIGHT + CONTENT_WEIGHT}
    /\ \E i \in 1..MaxDim : result.value[i] \notin {0, SUBJECT_WEIGHT + CONTENT_WEIGHT}

\* C23: in the service process_new_emails runs, for poll_emails or for
\* POST /process-emails, only while the initialization status is
\* "completed"; in every other state the polling task does not exist and
\* POST /process-emails was answered with an error and scheduled nothing.
C23_ProcessingGated ==
    /\ Running # {} => (initialization_status.state = "completed" /\ bot.exists)
    /\ polling.pc = "processing" => (initialization_status.state = "completed" /\ bot.exists)
    /\ initialization_status.state # "completed" =>
          /\ polling.pc = "none"
          /\ Running = {}
          /\ call.op = "process_emails" =>
                /\ result.value.status = "error"
                /\ result.value.message \in {"Bot initialization failed",
                                             "Bot initialization not complete"}

\* POST /process-emails was answered with the error of a failed
\* initialization, whose thread is still at work
C23_Witness ==
    /\ initialization_status.state = "failed"
    /\ call.op = "process_emails"
    /\ result.value = Answer("error", "Bot initialization failed")
    /\ \E t \in Triggers : workers[t] \in WorkerPhases

\* the call t of initialize_bot_async ends as failed in this step
Fails(t) == tasks[t] # "failed" /\ tasks'[t] = "failed"

\* a call of initialize_bot_async passes the checks of the status
Enters(t) == tasks[t] \in {"created", "queued"} /\ tasks'[t] # tasks[t]

\* C24: a call of initialize_bot_async that fails (missing variable, error
\* or time-out of initialize_system, error of MailingBot()) leaves the
\* status "failed" with a non-empty error, releases the lock and starts no
\* polling task; the failed call never goes on, so it never completes the
\* status, and the status leaves "failed" only when another call enters.
C24_FailureIsFinal ==
    [][/\ \A t \in Triggers :
             /\ Fails(t) =>
                   /\ initialization_status'.state = "failed"
                   /\ initialization_status'.error # ""
                   /\ polling' = polling
                   /\ lock' = NoTask
                   /\ ~bot'.exists
             /\ tasks[t] = "failed" =>
                   /\ tasks'[t] = "failed"
                   /\ workers'[t] # workers[t] => workers[t] \in WorkerPhases
       /\ (initialization_status.state = "failed" /\ initialization_status' # initialization_status)
             => \E u \in Triggers : Enters(u)
       /\ (initialization_status'.state = "completed" /\ initialization_status.state # "completed")
             => \E u \in Triggers : tasks[u] # "failed" /\ tasks'[u] = "done"
      ]_vars

\* a call failed by the time-out, one failed by an error of MailingBot()
\* after it: the status is failed and there is no polling task
C24_Witness ==
    /\ \E t, u \in Triggers :
          /\ tasks[t] = "failed"
          /\ workers[t] \in WorkerPhases
          /\ tasks[u] = "failed"
          /\ workers[u] = "returned"
    /\ initialization_status = update_init_status("failed", "Failed to initialize bot", "")
    /\ polling.pc = "none"

\* a thread of initialize_system calls pc.delete_index("job-candidates")
DeletesIndex(t) == workers[t] = "creating" /\ workers'[t] = "creating_jobs"

\* C25: once the initialization status is "completed" it never changes
\* again, and no index is deleted or created again.
C25_NoDeletionOnceCompleted ==
    [][initialization_status.state = "completed" =>
          /\ initialization_status' = initialization_status
          /\ \A t \in Triggers : ~DeletesIndex(t)
      ]_vars

\* the event loop resumes poll_emails when its sleep is over, and the calls
\* process_new_emails makes on the mail server, the stores and the oracles
\* return or raise
FairPolling ==
    /\ SpecService
    /\ WF_vars(PollWake)
    /\ WF_vars(\E n \in 0..MaxBatch, fetched \in BOOLEAN : RunFetch(PollRun, n, fetched))
    /\ WF_vars(RunMessage(PollRun))
    /\ WF_vars(RunReturn(PollRun))

\* C26: an exception of process_new_emails in a cycle of poll_emails is
\* caught, and after the wait a later cycle calls process_new_emails again;
\* a polling task that is not cancelled calls process_new_emails again and
\* again, every call coming back to the wait.
C26_PollingSurvives ==
    /\ (polling.pc = "sleep_except") ~> (polling.pc = "processing" \/ polling.cancel)
    /\ (polling.pc # "none") ~> (polling.pc = "processing" \/ polling.cancel)
    /\ (polling.pc = "processing") ~> (polling.pc \in {"sleep_try", "sleep_except"})
    /\ [][(polling.pc = "processing" /\ polling'.pc # "processing")
             => polling'.pc \in {"sleep_try", "sleep_except"}]_vars

\* process_new_emails raised in a cycle: poll_emails caught the exception
\* and waits in the except clause, not cancelled
C26_Witness ==
    /\ polling = [pc |-> "sleep_except", cancel |-> FALSE]
    /\ runs[PollRun] = IdleRun
    /\ main = "serving"
    /\ initialization_status.state = "completed"

-----------------------------------------------------------------------------
(* Claims on the branches of _process_single_email *)

\* C27: whatever the effective category of a message, the reply handed to
\* send_reply was produced by analyze_similar_emails.
C27_ReplyAlwaysGenerated ==
    pc = "send" => \E k \in 1..Len(trace) : trace[k].op = "analyze_similar_emails"

\* the calls of each of the three branch handlers
HandlerOps ==
    [job |-> {"store_job", "find_matching_candidates"},
     candidate |-> {"store_candidate", "find_matching_jobs"},
     other |-> {"weighted_similarity_search", "analyze_similar_emails"}]

\* the handlers that made a call for the current message
HandlersRun == {h \in DOMAIN HandlerOps : \E k \in 1..Len(trace) : trace[k].op \in HandlerOps[h]}

\* the step wrote the record id into namespace ns of the specialized index
\* and nothing else
WritesOnly(ns, id) ==
    /\ Ids(job_index', ns) = Ids(job_index, ns) \cup {id}
    /\ \A x \in Namespaces \ {ns} : job_index'[x] = job_index[x]
    /\ \A x \in Ids(job_index, ns) \ {id} : job_index'[ns][x] = job_index[ns][x]

\* C28: the effective category is OTHER for a raw OTHER and for every
\* confidence below 0.7, else the raw category; a message of effective
\* category OTHER writes nothing to the specialized index, a JOB message
\* only job_<id> into "jobs", a CANDIDATE message only candidate_<id> into
\* "candidates"; only the handler of the effective category runs, and it
\* has run when the reply is sent.
C28_OneBranchPerMessage ==
    /\ [](/\ loc.category # "" =>
                /\ loc.category = IF loc.confidence < 70 THEN "other" ELSE loc.raw_category
                /\ HandlersRun \subseteq {loc.category}
          /\ loc.category = "" => HandlersRun = {}
          /\ pc = "send" => HandlersRun = {loc.category})
    /\ [][job_index' # job_index =>
             \/ loc.category = "job"
                   /\ WritesOnly("jobs", RecordId("job_", email.message_id))
             \/ loc.category = "candidate"
                   /\ WritesOnly("candidates", RecordId("candidate_", email.message_id))
         ]_vars

\* a message classified job:0.69 is answered by the OTHER handler, the
\* specialized index being as initialize_system left it
C28_Witness ==
    /\ pc = "send"
    /\ loc.raw_category = "job"
    /\ loc.confidence = 69
    /\ loc.category = "other"
    /\ job_index = BootJobIndex(BootPairs)
    /\ OpsOf(trace) = <<"embed", "upsert", "classify", "weighted_similarity_search",
                         "analyze_similar_emails">>

\* the record of the current message in the general store
Stored == RecordId("", email.message_id) \in Ids(index, NAMESPACE)

\* C29: a message whose store_email failed (3 upsert attempts) fails at
\* once: classify_email and the handlers are only reached with the message
\* stored, the failed message leaves both indexes and the outbox as they
\* were; a failed embedding call likewise changes no store.
C29_StoreFailureStops ==
    /\ [](/\ pc \in {"classify", "job_store", "job_find", "candidate_store",
                     "candidate_find", "other_search", "other_analyze", "send"}
                => Stored
          /\ (pc = "loop" /\ trace # <<>> /\ trace[Len(trace)].op = "upsert") =>
                /\ ~Stored
                /\ OpsOf(trace) = <<"embed", "upsert">>
                /\ outcome[pos].status = "failed"
                /\ RepliesTo(email.message_id) = {}
                /\ RecordId("job_", email.message_id) \notin Ids(job_index, "jobs")
                /\ RecordId("candidate_", email.message_id) \notin Ids(job_index, "candidates"))
    /\ [][/\ (pc = "store" /\ pc' # "classify") =>
                /\ pc' = "loop"
                /\ outcome'[pos].status = "failed"
                /\ UNCHANGED <<index, job_index, outbox>>
          /\ (pc = "embed" /\ pc' # "store") =>
                /\ pc' = "loop"
                /\ outcome'[pos].status = "failed"
                /\ UNCHANGED <<index, job_index, outbox>>
         ]_vars

\* the second message of a batch failed in store_email, after the first was
\* answered
C29_Witness ==
    /\ pc = "loop"
    /\ pos = 2
    /\ OpsOf(trace) = <<"embed", "upsert">>
    /\ outcome[2].status = "failed"
    /\ ~Stored
    /\ outcome[1].status = "processed"
    /\ Len(outbox) = 1

-----------------------------------------------------------------------------
(* Claims on the record store_email writes *)

MetadataFields == {"subject", "content", "thread_id", "sender"}

\* C30: every record of the general store was written under the bare
\* message id, in the configured namespace only, with exactly the fields
\* subject, content, thread_id and sender, each the value of the message,
\* or the empty string where the message has None; no value is None.
C30_MetadataCoerced ==
    index # NoStore =>
        /\ \A ns \in Namespaces \ {NAMESPACE} : Ids(index, ns) = {}
        /\ \A id \in Ids(index, NAMESPACE) :
              LET rec == index[NAMESPACE][id]
              IN  /\ id[1] = ""
                  /\ id[2] \in DOMAIN latest["store_email"]
                  /\ rec.id = id
                  /\ DOMAIN rec.metadata = MetadataFields
                  /\ \A f \in MetadataFields :
                        /\ rec.metadata[f] # None
                        /\ rec.metadata[f] =
                              IF latest["store_email"][id[2]][f] = None
                              THEN EmptyText
                              ELSE latest["store_email"][id[2]][f]

\* two messages were stored, one without subject and sender, the other
\* without content and thread_id
C30_Witness ==
    /\ call.op = "store_email"
    /\ result.ok
    /\ \E x, y \in DOMAIN latest["store_email"] :
          /\ latest["store_email"][x].subject = None
          /\ latest["store_email"][x].sender = None
          /\ index[NAMESPACE][RecordId("", x)].metadata.sender = EmptyText
          /\ latest["store_email"][y].content = None
          /\ latest["store_email"][y].thread_id = None
          /\ index[NAMESPACE][RecordId("", y)].metadata.thread_id = EmptyText

-----------------------------------------------------------------------------
(* _format_similar_emails on lists of similar messages with repeated       *)
(* contents                                                               *)

\* longest list of similar messages formatted
MaxSimilar == 3

\* metadata of similar messages: contents shared by different subjects and
\* senders, and a message stored without content
SimilarPool ==
    {EmailMetadata(EmailData(1, <<"s">>, <<"a">>, None, <<"x">>)),
     EmailMetadata(EmailData(2, <<"t">>, <<"a">>, None, <<"y">>)),
     EmailMetadata(EmailData(3, <<"s">>, <<"b">>, <<"t">>, <<"x">>)),
     EmailMetadata(EmailData(4, <<"t">>, <<"b">>, None, <<"x">>)),
     EmailMetadata(EmailData(5, <<"s">>, None, None, <<"x">>))}

SimilarLists == UNION {[1..n -> SimilarPool] : n \in 0..MaxSimilar}

InitFormat ==
    /\ index = NoStore
    /\ job_index = NoStore
    /\ latest = NothingStored
    /\ call = NoCall
    /\ result = NoResult
    /\ OrchIdle
    /\ OthersIdle

\* analyze_similar_emails formats the similar emails for its prompt
FormatSimilarEmails(emails) ==
    /\ call = NoCall
    /\ call' = [op |-> "_format_similar_emails", emails |-> emails]
    /\ result' = Return(_format_similar_emails(emails))
    /\ UNCHANGED <<store_vars, orch_vars, other_vars>>

\* the formatted text is put into the prompt
FormatUsed ==
    /\ call # NoCall
    /\ call.op = "_format_similar_emails"
    /\ call' = NoCall
    /\ result' = NoResult
    /\ UNCHANGED <<store_vars, orch_vars, other_vars>>

NextFormat ==
    \/ \E emails \in SimilarLists : FormatSimilarEmails(emails)
    \/ FormatUsed

SpecFormat == InitFormat /\ [][NextFormat]_vars

\* the positions of emails at which a content occurs for the first time
FirstOccurrences(emails) ==
    {i \in 1..Len(emails) : \A j \in 1..(i - 1) : emails[j].content # emails[i].content}

\* C31: _format_similar_emails lists each distinct content of its input
\* once, with the subject of the first message that has it, in input
\* order, numbered 1..n; formatting the listed messages again lists the
\* same messages.
C31_DeduplicatedByContent ==
    (call # NoCall /\ call.op = "_format_similar_emails") =>
        LET emails == call.emails
            formatted == result.value
            first == FirstOccurrences(emails)
        IN  /\ Len(formatted) = Cardinality(first)
            /\ Len(formatted) = Cardinality({emails[i].content : i \in 1..Len(emails)})
            /\ \A i \in first :
                  LET k == Cardinality({j \in first : j <= i})
                  IN  /\ formatted[k].n = k
                      /\ formatted[k].content = emails[i].content
                      /\ formatted[k].subject = emails[i].subject
            /\ \A k, l \in 1..Len(formatted) :
                  k # l => formatted[k].content # formatted[l].content
            /\ _format_similar_emails(formatted) = formatted

\* three messages were formatted, the third with the content of the first
\* and another subject, the second with no content
C31_Witness ==
    /\ call # NoCall
    /\ call.op = "_format_similar_emails"
    /\ Len(call.emails) = MaxSimilar
    /\ call.emails[1].content = call.emails[3].content
    /\ call.emails[1].subject # call.emails[3].subject
    /\ call.emails[2].content = EmptyText
    /\ Len(result.value) = 2
    /\ result.value[2].content = EmptyText

-----------------------------------------------------------------------------
(* Claims on the stores of the service's bot *)

\* C32: whenever the initialization status is "completed" the bot exists
\* and its vector_store and job_store are the pair that a finished
\* initialize_system returned, kept in vector_stores; so no run of
\* process_new_emails started by the service finds a store missing and
\* raises "Vector stores not initialized".
C32_CompletedHasStores ==
    /\ initialization_status.state = "completed" =>
          /\ bot.exists
          /\ vector_stores # NoStores
          /\ bot.vector_store = vector_stores[1]
          /\ bot.job_store = vector_stores[2]
          /\ bot.vector_store.store = "VectorStore"
          /\ bot.job_store.store = "JobCandidateStore"
          /\ workers[bot.vector_store.by] = "returned"
          /\ workers[bot.job_store.by] = "returned"
    /\ Running # {} => ~StoresMissing(bot)
    /\ ~(call.op = "process_new_emails" /\ ~result.ok)

\* the second call of initialize_bot_async completed after the first timed
\* out, and a run of process_new_emails fetched its messages with the
\* stores of the second call
C32_Witness ==
    /\ initialization_status.state = "completed"
    /\ \E t \in Triggers : tasks[t] = "failed" /\ workers[t] \in WorkerPhases
    /\ \E r \in Runners : runs[r].pc = "loop" /\ runs[r].done > 0
    /\ bot = WithStores(MailingBot, Stores(MaxTriggers))

-----------------------------------------------------------------------------
(* Claims on a bot without stores *)

\* C33: process_new_emails of a bot that lacks a store (the bot of
\* run_bot.py) raises RuntimeError before it fetches: no message is
\* fetched or marked seen, embedded, stored, classified or answered, at
\* that call or ever.
C33_NoStoresNoWork ==
    /\ []((index = NoStore \/ job_index = NoStore) =>
            /\ pc \in {"idle", "raised"}
            /\ new_emails = <<>>
            /\ seen = {}
            /\ trace = <<>>
            /\ outbox = <<>>
            /\ outcome = <<>>
            /\ latest = NothingStored
            /\ pc = "raised" => (~result.ok /\ result.value = "RuntimeError"))
    /\ [][(index = NoStore \/ job_index = NoStore) =>
             /\ call'.op = "process_new_emails"
             /\ pc' = "raised"
             /\ result' = Raise("RuntimeError")
             /\ UNCHANGED <<index, job_index, latest, new_emails, seen, pos, loc, trace,
                            outcome, outbox>>
         ]_vars

\* the bot without stores was called and raised RuntimeError
C33_Witness ==
    /\ index = NoStore
    /\ job_index = NoStore
    /\ call.op = "process_new_emails"
    /\ pc = "raised"
    /\ ~result.ok
    /\ result.value = "RuntimeError"
    /\ seen = {}

-----------------------------------------------------------------------------
(* Claims on the status and the lock *)

\* C34: the initialization status is "in_progress" only while a call of
\* initialize_bot_async holds the lock: with the lock free the status is
\* not_started, completed or failed, whether the call returned, raised or
\* was cancelled.
C34_InProgressOnlyUnderLock ==
    lock = NoTask => initialization_status.state \in {"not_started", "completed", "failed"}

-----------------------------------------------------------------------------
(* initialize_system: the stores are created anew and every message of the *)
(* inbox is loaded into them by process_email_content, one action per call *)
(* on a store, an oracle or the mail server.                               *)

\* responses of the classification oracle of the bootstrap, "JOB,0.95"
BootResponses ==
    { <<"JOB", ",", "0.95">>, <<"JOB", ",", "0.7">>, <<"JOB", ",", "0.69">>,
      <<" ", "CANDIDATE", " ", ",", " ", "0.95", " ">>, <<"CANDIDATE", ",", "0.5">>,
      <<"GENERAL", ",", "0.95">>, <<"job", ",", "0.95">>, <<"JOB", ":", "0.95">>,
      <<"JOB", ",", "high">>, <<"JOB", ",", "0.95", ",", "0.5">>, None, ApiError }

\* classify_email_with_llm, given what chat.completions.create returns or
\* raises: the content is stripped and split at ",", the category stripped,
\* the confidence read by float()
classify_email_with_llm(response) ==
    IF response = ApiError THEN Raise("APIError")
    ELSE IF response = None THEN Raise("AttributeError")
    ELSE LET parts == Split(Strip(response), ",")
         IN  IF Len(parts) # 2 THEN Raise("ValueError")
             ELSE LET confidence == Float(parts[2])
                  IN  IF ~confidence.ok THEN confidence
                      ELSE Return([category |-> Strip(parts[1]),
                                   confidence |-> confidence.value])

\* every confident message stored as a job
BootAlwaysJob(category, confidence) ==
    IF confidence < CONFIDENCE_THRESHOLD THEN "boot_loop" ELSE "boot_job"

\* process_email_content after the classification: "if confidence < 0.7:
\* return", then the store of the category, or the end of the function
BootBranch(category, confidence) ==
    IF confidence < CONFIDENCE_THRESHOLD THEN "boot_loop"
    ELSE IF category = <<"JOB">> THEN "boot_job"
    ELSE IF category = <<"CANDIDATE">> THEN "boot_candidate"
    ELSE "boot_loop"

\* a bootstrap that answers each message it loaded
BootAnswers(email_data) == <<ReplyMessage(email_data, JobReply(<<>>))>>

\* the mail process_email_content sends for a message: it calls no
\* send_reply
BootMail(email_data) == <<>>

\* the finally block of initialize_system, "(processed/total_emails)*100",
\* and the return of the stores
Summary(processed, total_emails) ==
    IF total_emails = 0 THEN Raise("ZeroDivisionError")
    ELSE Return(<<"VectorStore", "JobCandidateStore">>)

\* the counters of initialize_system and the classification of the
\* current message
BootLocals(total_emails) ==
    [processed |-> 0, errors |-> 0, total_emails |-> total_emails,
     category |-> <<>>, confidence |-> 0]

InitBoot ==
    /\ index = NoStore
    /\ job_index = NoStore
    /\ latest = NothingStored
    /\ call = NoCall
    /\ result = NoResult
    /\ pc = "idle"
    /\ new_emails = <<>>
    /\ seen = {}
    /\ pos = 0
    /\ loc = BootLocals(0)
    /\ trace = <<>>
    /\ outcome = <<>>
    /\ outbox = <<>>
    /\ OthersIdle

\* initialize_system up to the loop: initialize_vector_stores deletes and
\* creates the two indexes, EmailHandler() connects, the inbox is searched
\* for ALL messages
InitializeSystem(inbox, stores_ok, connected) ==
    /\ pc \in {"idle", "boot_raised"}
    /\ call' = [op |-> "initialize_system"]
    /\ latest' = NothingStored
    /\ new_emails' = IF stores_ok /\ connected THEN inbox ELSE <<>>
    /\ pos' = 0
    /\ loc' = BootLocals(Len(new_emails'))
    /\ trace' = <<>>
    /\ outcome' = [k \in 1..Len(new_emails') |-> [status |-> "pending", error |-> ""]]
    /\ IF ~stores_ok
       THEN /\ result' = Raise("initialize_vector_stores")
            /\ pc' = "boot_raised"
            /\ UNCHANGED <<index, job_index>>
       ELSE /\ index' = EmptyIndex
            /\ job_index' = EmptyIndex
            /\ IF connected
               THEN /\ result' = NoResult
                    /\ pc' = "boot_loop"
               ELSE /\ result' = Raise("EmailHandler")
                    /\ pc' = "boot_raised"
    /\ UNCHANGED <<seen, outbox>>
    /\ UNCHANGED other_vars

\* "for msg_num in messages[0].split()": the next message, or the summary
\* of the finally block and the return
BootNext ==
    /\ pc = "boot_loop"
    /\ IF pos < Len(new_emails)
       THEN /\ pos' = pos + 1
            /\ pc' = "boot_store"
            /\ loc' = [loc EXCEPT !.category = <<>>, !.confidence = 0]
            /\ UNCHANGED result
       ELSE /\ result' = Summary(loc.processed, loc.total_emails)
            /\ pc' = IF result'.ok THEN "boot_done" ELSE "boot_raised"
            /\ UNCHANGED <<pos, loc>>
    /\ UNCHANGED <<store_vars, call, new_emails, seen, trace, outcome, outbox>>
    /\ UNCHANGED other_vars

\* "except Exception as e: errors += 1; continue" of the loop
BootError(e, events) ==
    /\ loc' = [loc EXCEPT !.errors = loc.errors + 1]
    /\ outcome' = [outcome EXCEPT ![pos] = [status |-> "error", error |-> e]]
    /\ trace' = trace \o events
    /\ pc' = "boot_loop"
    /\ UNCHANGED outbox

\* process_email_content returned: "processed += 1"
BootProcessed(locals, events) ==
    /\ loc' = [locals EXCEPT !.processed = locals.processed + 1]
    /\ outcome' = [outcome EXCEPT ![pos] = [status |-> "processed", error |-> ""]]
    /\ trace' = trace \o events
    /\ pc' = "boot_loop"
    /\ outbox' = outbox \o BootMail(email)

\* the message is fetched and parsed, its two embeddings generated and
\* combined, and store_email called
BootStore(fetched, embed_ok, fails) ==
    /\ pc = "boot_store"
    /\ LET combined_embedding ==
               LoadedCombination([SUBJECT_WEIGHT |-> SUBJECT_WEIGHT,
                                  CONTENT_WEIGHT |-> CONTENT_WEIGHT],
                                 Embedding(email.subject), Embedding(email.content))
           out == store_email(index, email, combined_embedding, fails)
           event == [op |-> "upsert", id |-> email.message_id]
       IN  IF ~fetched
           THEN /\ BootError("fetch", <<>>)
                /\ UNCHANGED <<index, latest>>
           ELSE IF ~embed_ok
           THEN /\ BootError("APIError", <<[op |-> "embed", id |-> email.message_id]>>)
                /\ UNCHANGED <<index, latest>>
           ELSE /\ index' = out.index
                /\ latest' = Remember("store_email", email.message_id, email, out.result)
                /\ IF out.result.ok
                   THEN /\ trace' = trace \o <<event>>
                        /\ pc' = "boot_classify"
                        /\ UNCHANGED <<loc, outcome, outbox>>
                   ELSE BootError("upsert", <<event>>)
    /\ UNCHANGED <<job_index, call, result, new_emails, seen, pos>>
    /\ UNCHANGED other_vars

\* classify_email_with_llm and the branch of process_email_content
BootClassify(response) ==
    /\ pc = "boot_classify"
    /\ LET got == classify_email_with_llm(response)
           event == [op |-> "classify", id |-> email.message_id]
       IN  IF ~got.ok THEN BootError(got.value, <<event>>)
           ELSE LET branch == BootBranch(got.value.category, got.value.confidence)
                IN  IF branch = "boot_loop"
                    THEN BootProcessed([loc EXCEPT !.category = got.value.category,
                                                   !.confidence = got.value.confidence],
                                       <<event>>)
                    ELSE /\ loc' = [loc EXCEPT !.category = got.value.category,
                                               !.confidence = got.value.confidence]
                         /\ trace' = trace \o <<event>>
                         /\ pc' = branch
                         /\ UNCHANGED <<outcome, outbox>>
    /\ UNCHANGED <<store_vars, call, result, new_emails, seen, pos>>
    /\ UNCHANGED other_vars

\* process_email_content, "if category == 'JOB'": store_job(job_data)
BootStoreJob(embed_ok, fails) ==
    /\ pc = "boot_job"
    /\ LET out == store_job(job_index, JobData(email), embed_ok, fails)
           event == [op |-> "store_job", id |-> email.message_id]
       IN  /\ job_index' = out.index
           /\ latest' = Remember("store_job", email.message_id, JobData(email), out.result)
           /\ IF out.result.ok
              THEN BootProcessed(loc, <<event>>)
              ELSE BootError(out.result.value, <<event>>)
    /\ UNCHANGED <<index, call, result, new_emails, seen, pos>>
    /\ UNCHANGED other_vars

\* process_email_content, "elif category == 'CANDIDATE'":
\* store_candidate(candidate_data)
BootStoreCandidate(embed_ok, fails) ==
    /\ pc = "boot_candidate"
    /\ LET out == store_candidate(job_index, CandidateData(email), embed_ok, fails)
           event == [op |-> "store_candidate", id |-> email.message_id]
       IN  /\ job_index' = out.index
           /\ latest' = Remember("store_candidate", email.message_id, CandidateData(email),
                                 out.result)
           /\ IF out.result.ok
              THEN BootProcessed(loc, <<event>>)
              ELSE BootError(out.result.value, <<event>>)
    /\ UNCHANGED <<index, call, result, new_emails, seen, pos>>
    /\ UNCHANGED other_vars

NextBoot ==
    \/ \E inbox \in Batches, stores_ok \in BOOLEAN, connected \in BOOLEAN :
          InitializeSystem(inbox, stores_ok, connected)
    \/ BootNext
    \/ \E fetched \in BOOLEAN, f \in StoreFaults : BootStore(fetched, f.embed_ok, f.fails)
    \/ \E response \in BootResponses : BootClassify(response)
    \/ \E f \in StoreFaults : BootStoreJob(f.embed_ok, f.fails)
    \/ \E f \in StoreFaults : BootStoreCandidate(f.embed_ok, f.fails)

SpecBoot == InitBoot /\ [][NextBoot]_vars

\* initialize_system has ended after it reached its loop: the stores were
\* initialized and the mail connection made
BootEnded ==
    /\ pc \in {"boot_done", "boot_raised"}
    /\ result.ok \/ result.value \notin {"initialize_vector_stores", "EmailHandler"}

\* C35: when the stores were initialized and the mail connection made,
\* initialize_system returns the pair of stores for every inbox size,
\* the empty inbox included, and at the end processed + errors is the
\* number of inbox messages.
C35_ReturnsForEveryInbox ==
    BootEnded =>
        /\ pc = "boot_done"
        /\ result = Return(<<"VectorStore", "JobCandidateStore">>)
        /\ loc.processed + loc.errors = Len(new_emails)

\* the classifications process_email_content stores into the specialized index
Confident(category) == loc.category = <<category>> /\ loc.confidence >= CONFIDENCE_THRESHOLD

\* C36: in the bootstrap a message is classified only once its record is
\* in the general store; a record is written to "jobs" only for the
\* classification JOB with confidence >= 0.7 and to "candidates" only for
\* CANDIDATE with confidence >= 0.7; with a lower confidence or another
\* category the message ends with the specialized index unchanged.
C36_BootstrapStoresByCategory ==
    /\ [](/\ pc \in {"boot_classify", "boot_job", "boot_candidate"} => Stored
          /\ pc = "boot_job" => Confident("JOB")
          /\ pc = "boot_candidate" => Confident("CANDIDATE"))
    /\ [][/\ job_index' # job_index =>
                \/ /\ pc \in {"idle", "boot_raised"}
                   /\ job_index' = EmptyIndex
                \/ /\ pc = "boot_job"
                   /\ Confident("JOB")
                   /\ WritesOnly("jobs", RecordId("job_", email.message_id))
                \/ /\ pc = "boot_candidate"
                   /\ Confident("CANDIDATE")
                   /\ WritesOnly("candidates", RecordId("candidate_", email.message_id))
          /\ (pc = "boot_classify" /\ ~(Confident("JOB") \/ Confident("CANDIDATE"))') =>
                /\ pc' = "boot_loop"
                /\ job_index' = job_index
         ]_vars

\* the first message was stored as a job, the second, classified JOB with
\* confidence 0.69, was stored in the general store only
C36_Witness ==
    /\ pc = "boot_loop"
    /\ pos = 2
    /\ loc.category = <<"JOB">>
    /\ loc.confidence = 69
    /\ loc.processed = 2
    /\ Stored
    /\ Ids(job_index, "jobs") = {RecordId("job_", new_emails[1].message_id)}
    /\ Ids(job_index, "candidates") = {}

\* C37: initialize_system sends no mail: whatever the classification of an
\* inbox message, process_email_content calls no send_reply and the outbox
\* stays empty.
C37_BootstrapSendsNothing ==
    /\ pc # "idle" => call.op = "initialize_system"
    /\ outbox = <<>>
    /\ \A k \in 1..Len(trace) :
          trace[k].op \in {"embed", "upsert", "classify", "store_job", "store_candidate"}

\* initialize_system returned after it stored a job and a candidate
C37_Witness ==
    /\ pc = "boot_done"
    /\ result.ok
    /\ loc.processed = MaxBatch
    /\ Ids(job_index, "jobs") # {}
    /\ Ids(job_index, "candidates") # {}
    /\ outbox = <<>>
    /\ OpsOf(trace) = <<"upsert", "classify", "store_job", "upsert", "classify",
                         "store_candidate">>

-----------------------------------------------------------------------------
(* Claims on the search of the OTHER branch and on the delivery *)

\* the query vector of the current message
OwnQuery == Combine(Embedding(email.subject), Embedding(email.content))

\* C38: weighted_similarity_search of _handle_other_email runs with the
\* record of the message itself already in the general namespace, under
\* its message_id and with its metadata, and no record scores higher
\* than it; when it is the only record, the similar messages given to the
\* reply generation are the message being answered.
C38_SearchFindsOwnRecord ==
    /\ [](pc \in {"other_search", "other_analyze"} =>
            /\ Stored
            /\ index[NAMESPACE][RecordId("", email.message_id)].metadata = EmailMetadata(email)
            /\ OpsOf(trace)[2] = "upsert"
            /\ \A id \in Ids(index, NAMESPACE) :
                  ScoreGE(Score(OwnQuery, index[NAMESPACE][RecordId("", email.message_id)].values),
                          Score(OwnQuery, index[NAMESPACE][id].values)))
    /\ [][(pc = "other_search" /\ pc' = "other_analyze") =>
             /\ index' = index
             /\ loc'.found = weighted_similarity_search(index, Embedding(email.subject),
                                                        Embedding(email.content)).value
             /\ Ids(index, NAMESPACE) = {RecordId("", email.message_id)} =>
                   loc'.found = <<EmailMetadata(email)>>
         ]_vars

\* the first message stored into empty stores went to _handle_other_email
\* and was found as its own similar message
C38_Witness ==
    /\ pc = "other_analyze"
    /\ pos = 1
    /\ email.content # EmptyText
    /\ Ids(index, NAMESPACE) = {RecordId("", email.message_id)}
    /\ loc.found = <<EmailMetadata(email)>>

\* C39: a failure of smtp.send_message does not leave send_reply: the
\* message whose reply was generated ends as processed, it is not marked
\* failed and stays seen, whether the reply was delivered or not; so a
\* processed message has at most one reply, and possibly none.
C39_SendFailureSwallowed ==
    /\ [](\A k \in 1..Len(outcome) :
             outcome[k].status = "processed" =>
                /\ new_emails[k].message_id \in seen
                /\ Cardinality(RepliesTo(new_emails[k].message_id)) <= 1)
    /\ [][(pc = "send" /\ loc.reply # NoContent) =>
             /\ pc' = "loop"
             /\ outcome'[pos] = [status |-> "processed", error |-> ""]
             /\ outbox' \in {outbox, Append(outbox, ReplyMessage(email, loc.reply))}
             /\ UNCHANGED <<index, job_index, seen, new_emails, pos>>
         ]_vars

\* both messages of a batch ended as processed: the reply to the first was
\* not delivered, the reply to the second was
C39_Witness ==
    /\ pc = "loop"
    /\ pos = 2
    /\ outcome[1].status = "processed"
    /\ outcome[2].status = "processed"
    /\ RepliesTo(new_emails[1].message_id) = {}
    /\ Cardinality(RepliesTo(new_emails[2].message_id)) = 1
    /\ Len(outbox) = 1

====
